---- MODULE Spec2Model ----
(***************************************************************************)
(* A model of pudl.workspace.datastore: the DatapackageDescriptor, the     *)
(* ZenodoFetcher (HTTP with urllib3 Retry, checksum validation) and the    *)
(* Datastore generator get_resources with its consumers, on top of the     *)
(* LayeredCache of pudl.workspace.resource_cache.                          *)
(***************************************************************************)
EXTENDS Integers, Sequences, FiniteSets, TLC

(***************************************************************************)
(* Values of the datapackage "parts" mapping and of filters: python ints,  *)
(* python strings and None.  str() is modelled by what it does.            *)
(***************************************************************************)
IntV(n) == [kind |-> "int", i |-> n, s |-> ""]
StrV(t) == [kind |-> "str", i |-> 0, s |-> t]
NoneV == [kind |-> "none", i |-> 0, s |-> ""]

Digit(d) == <<"0", "1", "2", "3", "4", "5", "6", "7", "8", "9">>[d + 1]

RECURSIVE IntToStr(_)
IntToStr(n) == IF n < 10 THEN Digit(n) ELSE IntToStr(n \div 10) \o Digit(n % 10)

\* python str(v)
str(v) ==
    CASE v.kind = "int" -> IntToStr(v.i)
      [] v.kind = "str" -> v.s
      [] OTHER -> "None"

\* a python dict with no entries
EmptyDict == [k \in {} |-> NoneV]

\* python dict.get(k): None when the key is missing
DictGet(d, k) == IF k \in DOMAIN d THEN d[k] ELSE NoneV

(***************************************************************************)
(* Payloads are small naturals; md5 is a collision-free map on them.       *)
(***************************************************************************)
MaxPayload == 3
Payloads == 0 .. MaxPayload

md5(content) == (content * 11 + 5) % 32

\* The dataset -> doi table of the production backend.
DOI ==
    [ds \in {"eia860", "eia861"} |->
        IF ds = "eia860" THEN "10.5281/zenodo.4127027" ELSE "10.5281/zenodo.4127029"]

Datasets == DOMAIN DOI

\* The special resource name that holds the serialized descriptor.
DatapackageName == "datapackage.json"

\* A resource entry of datapackage.json.
Resource(name, parts, payload) ==
    [name |-> name, parts |-> parts, hash |-> md5(payload), path |-> name]

\* The archive published for each dataset: resource a tagged with a string
\* year, b with an integer year, c with no parts at all.
PublishedPayload ==
    [n \in {"a", "b", "c", "d"} |->
        CASE n = "a" -> 1 [] n = "b" -> 2 [] n = "c" -> 3 [] OTHER -> 1]

datapackage_json(ds) ==
    IF ds = "eia861"
    THEN << Resource("a", [year |-> StrV("2020")], PublishedPayload["a"]),
            Resource("b", [year |-> IntV(2021)], PublishedPayload["b"]),
            Resource("c", EmptyDict, PublishedPayload["c"]) >>
    ELSE << Resource("d", [year |-> StrV("2020")], PublishedPayload["d"]) >>

ResourceNames == {"a", "b", "c", "d"}
Names == ResourceNames \cup {DatapackageName}

PudlResourceKey(ds, doi, name) == [name |-> name, doi |-> doi, dataset |-> ds]
Key(ds, name) == PudlResourceKey(ds, DOI[ds], name)
Keys == {Key(ds, n) : ds \in Datasets, n \in Names}

(***************************************************************************)
(* DatapackageDescriptor                                                   *)
(***************************************************************************)
get_resource_metadata(resources, name) ==
    LET idx == {i \in 1 .. Len(resources) : resources[i].name = name}
    IN  resources[CHOOSE i \in idx : \A j \in idx : i <= j]

\* validate_checksum raises ChecksumMismatch exactly when this is FALSE
ChecksumOk(resources, name, content) ==
    md5(content) = get_resource_metadata(resources, name).hash

matches(res, filters) ==
    \A k \in DOMAIN filters : str(DictGet(res.parts, k)) = str(filters[k])

\* name = "" stands for the default name=None (both are falsy in `if name`)
RECURSIVE desc_get_resources(_, _, _)
desc_get_resources(resources, name, filters) ==
    IF resources = <<>> THEN <<>>
    ELSE LET res == Head(resources)
             rest == desc_get_resources(Tail(resources), name, filters)
         IN  IF name # "" /\ res.name # name THEN rest
             ELSE IF matches(res, filters) THEN <<res.name>> \o rest
             ELSE rest

\* get_json_string / json.loads: the serialized descriptor of a dataset is a
\* payload of its own, distinct from every resource payload.
DescriptorBytes(ds) == IF ds = "eia860" THEN MaxPayload + 1 ELSE MaxPayload + 2

(***************************************************************************)
(* LayeredCache (pudl.workspace.resource_cache)                            *)
(***************************************************************************)
Absent == -1
EmptyLayer == [k \in Keys |-> Absent]

LayerContains(layer, key) == layer[key] # Absent

LCContains(ls, key) == \E i \in 1 .. Len(ls) : LayerContains(ls[i], key)

\* an is_optimally_cached that is satisfied by any layer
LCIsCachedAnywhere(ls, key) == \E i \in 1 .. Len(ls) : LayerContains(ls[i], key)

LCIsOptimallyCached(ls, key) == Len(ls) > 0 /\ LayerContains(ls[1], key)

\* index of the first layer that holds the key (0 when none does)
LCFirstHit(ls, key) ==
    IF LCContains(ls, key)
    THEN CHOOSE i \in 1 .. Len(ls) :
            /\ LayerContains(ls[i], key)
            /\ \A j \in 1 .. (i - 1) : ~LayerContains(ls[j], key)
    ELSE 0

LCGetValue(ls, key) == ls[LCFirstHit(ls, key)][key]

\* a get that promotes nothing
LCGetNoBackfill(ls, key, failing) == ls

\* the layers after get(key): every higher-priority layer that missed is
\* backfilled, except those in `failing`, whose write fails and is logged
LCGetBackfill(ls, key, failing) ==
    LET hit == LCFirstHit(ls, key)
    IN  [i \in 1 .. Len(ls) |->
            IF i < hit /\ i \notin failing
            THEN [ls[i] EXCEPT ![key] = ls[hit][key]]
            ELSE ls[i]]

\* put raises CacheWriteFailed exactly when there are layers and all fail
LCPutFails(ls, failing) == Len(ls) > 0 /\ (1 .. Len(ls)) \subseteq failing

\* a put that gives up at the first layer whose write fails
LCPutStopsAtFailure(ls, key, content, failing) ==
    [i \in 1 .. Len(ls) |->
        IF \E j \in 1 .. i : j \in failing
        THEN ls[i]
        ELSE [ls[i] EXCEPT ![key] = content]]

\* a put that never replaces a value a layer already holds
LCPutKeepsOld(ls, key, content, failing) ==
    [i \in 1 .. Len(ls) |->
        IF i \in failing \/ LayerContains(ls[i], key)
        THEN ls[i]
        ELSE [ls[i] EXCEPT ![key] = content]]

LCPut(ls, key, content, failing) ==
    [i \in 1 .. Len(ls) |->
        IF i \in failing THEN ls[i] ELSE [ls[i] EXCEPT ![key] = content]]

LCDelete(ls, key) == [i \in 1 .. Len(ls) |-> [ls[i] EXCEPT ![key] = Absent]]

(***************************************************************************)
(* State                                                                   *)
(***************************************************************************)
VARIABLES
    callers,                  \* the callers that run in this behaviour
    layers,                   \* Datastore._cache: the layers, in priority order
    descriptor_cache,         \* ZenodoFetcher._descriptor_cache (dois)
    datapackage_descriptors,  \* Datastore._datapackage_descriptors (dois)
    pc,                       \* where each caller is
    call,                     \* the arguments of the running call
    todo,                     \* what desc.get_resources(**filters) still yields
    cur,                      \* res of the running loop iteration
    http,                     \* the HTTP request in progress
    contents,                 \* the local `contents` of get_resources
    out,                      \* the pairs yielded to the consumer so far
    err,                      \* the exception that ended the call
    result,                   \* the value get_unique_resource returned
    netlog,                   \* the URLs requested during the running call
    fetched,                  \* keys fetched and yielded, not invalidated since
    prior,                    \* `fetched` as it was when the call started
    match,                    \* a DatapackageDescriptor.get_resources call on its own
    cop,                      \* the last operation applied to the cache directly
    scan,                     \* validate_cache: datasets left and its counters
    lstore                    \* one file of a local cache layer, and its writer

vars ==
    << callers, layers, descriptor_cache, datapackage_descriptors, pc, call,
       todo, cur, http, contents, out, err, result, netlog, fetched, prior,
       match, cop, scan, lstore >>

Procs == {1, 2}

\* Datastore.__init__ adds at most a local and a GCS layer
MaxLayers == 2

NoCall ==
    [dataset |-> "eia861", filters |-> EmptyDict, op |-> "none",
     cached_only |-> FALSE, skip_optimally_cached |-> FALSE]

NoHttp == [purpose |-> "none", ret |-> "none", attempts |-> 0, status |-> 0, body |-> 0]

NoContent == -1

\* The filters the callers use.
FilterChoices ==
    { EmptyDict, [year |-> IntV(2020)], [year |-> StrV("1999")] }

QueryDatasets == {"eia861"}

Url(ds, what) == [dataset |-> ds, what |-> what]

NoMatch ==
    [name |-> "", resources |-> <<>>, filters |-> EmptyDict, applied |-> FALSE,
     keys |-> <<>>]

\* no operation applied to the cache yet
NoPrev ==
    [key |-> Key("eia861", "a"), failing |-> {}, op |-> "none", arg |-> Absent,
     value |-> Absent, answer |-> FALSE, error |-> "none", old |-> Absent,
     holders |-> {}]

NoCop ==
    [key |-> Key("eia861", "a"), failing |-> {}, op |-> "none", arg |-> Absent,
     value |-> Absent, answer |-> FALSE, error |-> "none", old |-> Absent,
     holders |-> {}, prev |-> NoPrev]

\* no validate_cache run in progress
NoScan ==
    [datasets |-> <<>>, num_total |-> 0, num_invalid |-> 0, log |-> <<>>,
     removed |-> {}, checked |-> {}, before |-> <<>>]

\* a file that does not exist
NoFile == <<Absent>>

\* nothing read yet
NoRead ==
    [op |-> "none", value |-> NoFile, answer |-> FALSE, old |-> NoFile,
     pending |-> NoFile, partial |-> <<>>]

\* the file of a key that was never written, no writer at work
NoStore ==
    [old |-> NoFile, file |-> NoFile, tmp |-> <<>>, writing |-> NoFile,
     seen |-> NoRead]

\* every caller at rest, nothing memoized
AtRest ==
    /\ descriptor_cache = {}
    /\ datapackage_descriptors = {}
    /\ pc = [p \in Procs |-> "idle"]
    /\ call = [p \in Procs |-> NoCall]
    /\ todo = [p \in Procs |-> <<>>]
    /\ cur = [p \in Procs |-> ""]
    /\ http = [p \in Procs |-> NoHttp]
    /\ contents = [p \in Procs |-> NoContent]
    /\ out = [p \in Procs |-> <<>>]
    /\ err = [p \in Procs |-> "none"]
    /\ result = [p \in Procs |-> NoContent]
    /\ netlog = [p \in Procs |-> {}]
    /\ fetched = {}
    /\ prior = [p \in Procs |-> {}]
    /\ cop = NoCop
    /\ scan = NoScan
    /\ lstore = NoStore

Init ==
    /\ callers = {1}
    /\ \E n \in 0 .. MaxLayers : layers = [i \in 1 .. n |-> EmptyLayer]
    /\ AtRest
    /\ match = NoMatch

\* an exception leaves the running call
Raise(p, e) ==
    /\ pc' = [pc EXCEPT ![p] = "done"]
    /\ err' = [err EXCEPT ![p] = e]

\* subsets of the layers whose write fails (CacheLayerUnavailable)
FailingSets == SUBSET (1 .. Len(layers))

(***************************************************************************)
(* Datastore.get_resources and get_unique_resource: the calls              *)
(***************************************************************************)
StartCall(p, c) ==
    /\ p \in callers
    /\ pc[p] = "idle"
    /\ call' = [call EXCEPT ![p] = c]
    /\ pc' = [pc EXCEPT ![p] = "descriptor"]
    /\ prior' = [prior EXCEPT ![p] = fetched]
    /\ UNCHANGED << cop, scan, lstore, match, callers, layers, descriptor_cache, datapackage_descriptors,
                    todo, cur, http, contents, out, err, result, netlog, fetched >>

call_get_resources(p) ==
    \E ds \in QueryDatasets, co \in BOOLEAN, sk \in BOOLEAN, f \in FilterChoices :
        StartCall(p, [dataset |-> ds, filters |-> f, op |-> "get_resources",
                      cached_only |-> co, skip_optimally_cached |-> sk])

call_get_unique_resource(p) ==
    \E ds \in QueryDatasets, f \in FilterChoices :
        StartCall(p, [dataset |-> ds, filters |-> f, op |-> "get_unique_resource",
                      cached_only |-> FALSE, skip_optimally_cached |-> FALSE])

(***************************************************************************)
(* ZenodoFetcher: HTTP GET through the session's urllib3 Retry             *)
(***************************************************************************)
\* Retry(total=3): the number of retries after the first attempt
RetryTotal == 3

\* Retry(status_forcelist=[...])
status_forcelist == {429, 500, 502, 503, 504}

\* requests.codes.ok
StatusOk == 200

\* a connection-level failure or timeout, in place of a status
ConnectionFailure == 0

\* what the remote may answer to one attempt
RemoteStatuses == {StatusOk, 404, 429, 503, ConnectionFailure}

Retryable(status, forcelist) == status \in forcelist \/ status = ConnectionFailure

\* the request that follows a finished get_descriptor
AfterDescriptor(p, h) ==
    IF h.ret = "resource"
    THEN /\ pc' = [pc EXCEPT ![p] = "http"]
         /\ http' = [http EXCEPT ![p] = [h EXCEPT !.purpose = "resource", !.attempts = 0]]
    ELSE /\ pc' = [pc EXCEPT ![p] = "descriptor_add"]
         /\ http' = [http EXCEPT ![p] = h]

\* get_descriptor without its memoization map: every call downloads the
\* metadata again
get_descriptor_always_fetches(p) ==
    /\ pc[p] = "get_descriptor"
    /\ pc' = [pc EXCEPT ![p] = "http"]
    /\ http' = [http EXCEPT ![p].purpose = "deposit", ![p].attempts = 0]
    /\ UNCHANGED << cop, scan, lstore, match, callers, layers, descriptor_cache, datapackage_descriptors,
                    call, todo, cur, contents, out, err, result, netlog, fetched,
                    prior >>

\* ZenodoFetcher.get_descriptor up to its first request
get_descriptor(p) ==
    /\ pc[p] = "get_descriptor"
    /\ IF DOI[call[p].dataset] \in descriptor_cache
       THEN AfterDescriptor(p, http[p])
       ELSE /\ pc' = [pc EXCEPT ![p] = "http"]
            /\ http' = [http EXCEPT ![p].purpose = "deposit", ![p].attempts = 0]
    /\ UNCHANGED << cop, scan, lstore, match, callers, layers, descriptor_cache, datapackage_descriptors,
                    call, todo, cur, contents, out, err, result, netlog, fetched,
                    prior >>

UrlOf(p) ==
    Url(call[p].dataset, IF http[p].purpose = "resource" THEN cur[p] ELSE http[p].purpose)

\* one attempt of self.http.get under Retry(total, status_forcelist), and what
\* _fetch_from_url and its caller do with the answer
http_get(p, forcelist, total) ==
    /\ pc[p] = "http"
    /\ \E status \in RemoteStatuses, body \in Payloads :
        LET h == [http[p] EXCEPT !.attempts = @ + 1, !.status = status, !.body = body]
        IN  /\ netlog' = [netlog EXCEPT ![p] = @ \cup {UrlOf(p)}]
            /\ IF Retryable(status, forcelist)
               THEN IF h.attempts <= total
                    THEN \* urllib3 sleeps and sends the request again
                         /\ http' = [http EXCEPT ![p] = h]
                         /\ UNCHANGED << pc, err, contents, descriptor_cache >>
                    ELSE \* MaxRetryError: requests raises RetryError/ConnectionError
                         /\ http' = [http EXCEPT ![p] = h]
                         /\ Raise(p, "RemoteFetchFailed")
                         /\ UNCHANGED << contents, descriptor_cache >>
               ELSE IF status # StatusOk
               THEN \* raise ValueError("Could not download ...")
                    /\ http' = [http EXCEPT ![p] = h]
                    /\ Raise(p, "RemoteFetchFailed")
                    /\ UNCHANGED << contents, descriptor_cache >>
               ELSE CASE h.purpose = "deposit" ->
                         /\ http' = [http EXCEPT ![p] =
                                        [h EXCEPT !.purpose = "datapackage", !.attempts = 0]]
                         /\ UNCHANGED << pc, err, contents, descriptor_cache >>
                      [] h.purpose = "datapackage" ->
                         /\ descriptor_cache' = descriptor_cache \cup {DOI[call[p].dataset]}
                         /\ AfterDescriptor(p, h)
                         /\ UNCHANGED << err, contents >>
                      [] OTHER ->
                         /\ http' = [http EXCEPT ![p] = h]
                         /\ contents' = [contents EXCEPT ![p] = body]
                         /\ pc' = [pc EXCEPT ![p] = "validate"]
                         /\ UNCHANGED << err, descriptor_cache >>
    /\ UNCHANGED << cop, scan, lstore, match, callers, layers, datapackage_descriptors, call, todo, cur, out,
                    result, fetched, prior >>

\* the session without the Retry adapter: no attempt is repeated
fetch_from_url_no_retry(p) == http_get(p, status_forcelist, 0)

\* a Retry that also repeats the request on 404
fetch_from_url_retries_404(p) == http_get(p, status_forcelist \cup {404}, RetryTotal)

\* a Retry that allows one retry more
fetch_from_url_one_more(p) == http_get(p, status_forcelist, RetryTotal + 1)

fetch_from_url(p) == http_get(p, status_forcelist, RetryTotal)

\* validate_checksum that never raises
validate_checksum_never_raises(p) ==
    /\ pc[p] = "validate"
    /\ pc' = [pc EXCEPT ![p] = "add"]
    /\ UNCHANGED << cop, scan, lstore, match, callers, layers, descriptor_cache, datapackage_descriptors,
                    call, todo, cur, http, contents, out, err, result, netlog,
                    fetched, prior >>

\* desc.validate_checksum(res.name, content); return content
validate_checksum(p) ==
    /\ pc[p] = "validate"
    /\ IF ChecksumOk(datapackage_json(call[p].dataset), cur[p], contents[p])
       THEN /\ pc' = [pc EXCEPT ![p] = "add"]
            /\ UNCHANGED err
       ELSE Raise(p, "ChecksumMismatch")
    /\ UNCHANGED << cop, scan, lstore, match, callers, layers, descriptor_cache, datapackage_descriptors,
                    call, todo, cur, http, contents, out, result, netlog, fetched,
                    prior >>

(***************************************************************************)
(* Datastore.get_datapackage_descriptor                                    *)
(***************************************************************************)
DescKey(p) == Key(call[p].dataset, DatapackageName)

StartLoop(p) ==
    /\ pc' = [pc EXCEPT ![p] = "iterate"]
    /\ todo' = [todo EXCEPT ![p] =
                  desc_get_resources(datapackage_json(call[p].dataset), "", call[p].filters)]

\* get_datapackage_descriptor without its in-memory map: every call goes to
\* the cache or to the remote again
get_datapackage_descriptor_unmemoized(p) ==
    /\ pc[p] = "descriptor"
    /\ IF LCContains(layers, DescKey(p))
       THEN /\ \E failing \in FailingSets :
                 layers' = LCGetBackfill(layers, DescKey(p), failing)
            /\ datapackage_descriptors' =
                 datapackage_descriptors \cup {DOI[call[p].dataset]}
            /\ StartLoop(p)
            /\ UNCHANGED http
       ELSE /\ pc' = [pc EXCEPT ![p] = "get_descriptor"]
            /\ http' = [http EXCEPT ![p] = [NoHttp EXCEPT !.ret = "descriptor"]]
            /\ UNCHANGED << layers, datapackage_descriptors, todo >>
    /\ UNCHANGED << cop, scan, lstore, match, callers, descriptor_cache, call, cur, contents, out, err,
                    result, netlog, fetched, prior >>

get_datapackage_descriptor(p) ==
    /\ pc[p] = "descriptor"
    /\ IF DOI[call[p].dataset] \in datapackage_descriptors
       THEN /\ StartLoop(p)
            /\ UNCHANGED << layers, datapackage_descriptors, http >>
       ELSE IF LCContains(layers, DescKey(p))
       THEN /\ \E failing \in FailingSets :
                 layers' = LCGetBackfill(layers, DescKey(p), failing)
            /\ datapackage_descriptors' =
                 datapackage_descriptors \cup {DOI[call[p].dataset]}
            /\ StartLoop(p)
            /\ UNCHANGED http
       ELSE /\ pc' = [pc EXCEPT ![p] = "get_descriptor"]
            /\ http' = [http EXCEPT ![p] = [NoHttp EXCEPT !.ret = "descriptor"]]
            /\ UNCHANGED << layers, datapackage_descriptors, todo >>
    /\ UNCHANGED << cop, scan, lstore, match, callers, descriptor_cache, call, cur, contents, out, err,
                    result, netlog, fetched, prior >>

\* the else branch after get_descriptor returned: memoize, then cache.add
descriptor_add(p) ==
    /\ pc[p] = "descriptor_add"
    /\ datapackage_descriptors' = datapackage_descriptors \cup {DOI[call[p].dataset]}
    /\ \E failing \in FailingSets :
        IF LCPutFails(layers, failing)
        THEN /\ Raise(p, "CacheWriteFailed")
             /\ UNCHANGED << layers, todo >>
        ELSE /\ layers' = LCPut(layers, DescKey(p), DescriptorBytes(call[p].dataset), failing)
             /\ StartLoop(p)
             /\ UNCHANGED err
    /\ UNCHANGED << cop, scan, lstore, match, callers, descriptor_cache, call, cur, http, contents, out,
                    result, netlog, fetched, prior >>

(***************************************************************************)
(* Datastore.get_resources: the generator body                             *)
(***************************************************************************)
CurKey(p) == Key(call[p].dataset, cur[p])

Yielded(name, content, src) == [content |-> content, name |-> name, src |-> src]

\* get_resources_examine that skips a resource cached in any layer
get_resources_examine_skips_cached(p) ==
    /\ pc[p] = "iterate"
    /\ todo[p] # <<>>
    /\ LET res == Key(call[p].dataset, Head(todo[p]))
       IN  /\ cur' = [cur EXCEPT ![p] = Head(todo[p])]
           /\ todo' = [todo EXCEPT ![p] = Tail(todo[p])]
           /\ contents' = [contents EXCEPT ![p] = NoContent]
           /\ IF LCContains(layers, res) /\ call[p].skip_optimally_cached
              THEN /\ UNCHANGED pc
                   /\ http' = [http EXCEPT ![p] = NoHttp]
              ELSE IF LCContains(layers, res)
              THEN /\ pc' = [pc EXCEPT ![p] = "hit"]
                   /\ http' = [http EXCEPT ![p] = NoHttp]
              ELSE IF ~call[p].cached_only
              THEN /\ pc' = [pc EXCEPT ![p] = "get_descriptor"]
                   /\ http' = [http EXCEPT ![p] = [NoHttp EXCEPT !.ret = "resource"]]
              ELSE /\ UNCHANGED pc
                   /\ http' = [http EXCEPT ![p] = NoHttp]
    /\ UNCHANGED << cop, scan, lstore, match, callers, layers, descriptor_cache, datapackage_descriptors,
                    call, out, err, result, netlog, fetched, prior >>

\* get_resources_examine that never looks into the cache
get_resources_examine_uncached(p) ==
    /\ pc[p] = "iterate"
    /\ todo[p] # <<>>
    /\ cur' = [cur EXCEPT ![p] = Head(todo[p])]
    /\ todo' = [todo EXCEPT ![p] = Tail(todo[p])]
    /\ contents' = [contents EXCEPT ![p] = NoContent]
    /\ IF ~call[p].cached_only
       THEN /\ pc' = [pc EXCEPT ![p] = "get_descriptor"]
            /\ http' = [http EXCEPT ![p] = [NoHttp EXCEPT !.ret = "resource"]]
       ELSE /\ UNCHANGED pc
            /\ http' = [http EXCEPT ![p] = NoHttp]
    /\ UNCHANGED << cop, scan, lstore, match, callers, layers, descriptor_cache, datapackage_descriptors,
                    call, out, err, result, netlog, fetched, prior >>

\* get_resources_examine with the cache-hit check made before the
\* skip_optimally_cached check
get_resources_examine_hit_first(p) ==
    /\ pc[p] = "iterate"
    /\ todo[p] # <<>>
    /\ LET res == Key(call[p].dataset, Head(todo[p]))
       IN  /\ cur' = [cur EXCEPT ![p] = Head(todo[p])]
           /\ todo' = [todo EXCEPT ![p] = Tail(todo[p])]
           /\ contents' = [contents EXCEPT ![p] = NoContent]
           /\ IF LCContains(layers, res)
              THEN /\ pc' = [pc EXCEPT ![p] = "hit"]
                   /\ http' = [http EXCEPT ![p] = NoHttp]
              ELSE IF LCIsOptimallyCached(layers, res) /\ call[p].skip_optimally_cached
              THEN /\ UNCHANGED pc
                   /\ http' = [http EXCEPT ![p] = NoHttp]
              ELSE IF ~call[p].cached_only
              THEN /\ pc' = [pc EXCEPT ![p] = "get_descriptor"]
                   /\ http' = [http EXCEPT ![p] = [NoHttp EXCEPT !.ret = "resource"]]
              ELSE /\ UNCHANGED pc
                   /\ http' = [http EXCEPT ![p] = NoHttp]
    /\ UNCHANGED << cop, scan, lstore, match, callers, layers, descriptor_cache, datapackage_descriptors,
                    call, out, err, result, netlog, fetched, prior >>

\* get_resources_examine that fetches what the cache lacks even if cached_only
get_resources_examine_ignores_cached_only(p) ==
    /\ pc[p] = "iterate"
    /\ todo[p] # <<>>
    /\ LET res == Key(call[p].dataset, Head(todo[p]))
       IN  /\ cur' = [cur EXCEPT ![p] = Head(todo[p])]
           /\ todo' = [todo EXCEPT ![p] = Tail(todo[p])]
           /\ contents' = [contents EXCEPT ![p] = NoContent]
           /\ IF LCIsOptimallyCached(layers, res) /\ call[p].skip_optimally_cached
              THEN /\ UNCHANGED pc
                   /\ http' = [http EXCEPT ![p] = NoHttp]
              ELSE IF LCContains(layers, res)
              THEN /\ pc' = [pc EXCEPT ![p] = "hit"]
                   /\ http' = [http EXCEPT ![p] = NoHttp]
              ELSE /\ pc' = [pc EXCEPT ![p] = "get_descriptor"]
                   /\ http' = [http EXCEPT ![p] = [NoHttp EXCEPT !.ret = "resource"]]
    /\ UNCHANGED << cop, scan, lstore, match, callers, layers, descriptor_cache, datapackage_descriptors,
                    call, out, err, result, netlog, fetched, prior >>

\* one pass of the for loop up to the branch it takes
get_resources_examine(p) ==
    /\ pc[p] = "iterate"
    /\ todo[p] # <<>>
    /\ LET res == Key(call[p].dataset, Head(todo[p]))
       IN  /\ cur' = [cur EXCEPT ![p] = Head(todo[p])]
           /\ todo' = [todo EXCEPT ![p] = Tail(todo[p])]
           /\ contents' = [contents EXCEPT ![p] = NoContent]
           /\ IF LCIsOptimallyCached(layers, res) /\ call[p].skip_optimally_cached
              THEN /\ UNCHANGED pc
                   /\ http' = [http EXCEPT ![p] = NoHttp]
              ELSE IF LCContains(layers, res)
              THEN /\ pc' = [pc EXCEPT ![p] = "hit"]
                   /\ http' = [http EXCEPT ![p] = NoHttp]
              ELSE IF ~call[p].cached_only
              THEN /\ pc' = [pc EXCEPT ![p] = "get_descriptor"]
                   /\ http' = [http EXCEPT ![p] = [NoHttp EXCEPT !.ret = "resource"]]
              ELSE /\ UNCHANGED pc
                   /\ http' = [http EXCEPT ![p] = NoHttp]
    /\ UNCHANGED << cop, scan, lstore, match, callers, layers, descriptor_cache, datapackage_descriptors,
                    call, out, err, result, netlog, fetched, prior >>

\* yield (res, self._cache.get(res))
get_resources_hit(p) ==
    /\ pc[p] = "hit"
    /\ IF LCContains(layers, CurKey(p))
       THEN /\ \E failing \in FailingSets :
                 layers' = LCGetBackfill(layers, CurKey(p), failing)
            /\ out' = [out EXCEPT ![p] =
                         Append(@, Yielded(cur[p], LCGetValue(layers, CurKey(p)), "cache"))]
            /\ pc' = [pc EXCEPT ![p] = "yielded"]
            /\ UNCHANGED err
       ELSE /\ Raise(p, "ResourceNotFound")
            /\ UNCHANGED << layers, out >>
    /\ UNCHANGED << cop, scan, lstore, match, callers, descriptor_cache, datapackage_descriptors, call, todo,
                    cur, http, contents, result, netlog, fetched, prior >>

\* a loop that yields what it fetched only when the cache took it
get_resources_add_yields_cached(p) ==
    /\ pc[p] = "add"
    /\ \E failing \in FailingSets :
        IF LCPutFails(layers, failing)
        THEN /\ Raise(p, "CacheWriteFailed")
             /\ UNCHANGED << layers, out, fetched >>
        ELSE /\ layers' = LCPut(layers, CurKey(p), contents[p], failing)
             /\ IF LCContains(layers', CurKey(p))
                THEN /\ out' = [out EXCEPT
                                  ![p] = Append(@, Yielded(cur[p], contents[p], "remote"))]
                     /\ fetched' = fetched \cup {CurKey(p)}
                     /\ pc' = [pc EXCEPT ![p] = "yielded"]
                ELSE /\ pc' = [pc EXCEPT ![p] = "iterate"]
                     /\ UNCHANGED << out, fetched >>
             /\ UNCHANGED err
    /\ UNCHANGED << cop, scan, lstore, match, callers, descriptor_cache, datapackage_descriptors, call, todo,
                    cur, http, contents, result, netlog, prior >>

\* an eager loop: having saved one pair it already downloads and saves the
\* next matching resource before the consumer asks for it
get_resources_add_prefetches(p) ==
    /\ pc[p] = "add"
    /\ \E failing \in FailingSets :
        IF LCPutFails(layers, failing)
        THEN /\ Raise(p, "CacheWriteFailed")
             /\ UNCHANGED << layers, out, fetched >>
        ELSE /\ layers' =
                  IF todo[p] = <<>>
                  THEN LCPut(layers, CurKey(p), contents[p], failing)
                  ELSE LCPut(LCPut(layers, CurKey(p), contents[p], failing),
                             Key(call[p].dataset, Head(todo[p])),
                             PublishedPayload[Head(todo[p])], failing)
             /\ out' = [out EXCEPT ![p] = Append(@, Yielded(cur[p], contents[p], "remote"))]
             /\ fetched' = fetched \cup {CurKey(p)}
             /\ pc' = [pc EXCEPT ![p] = "yielded"]
             /\ UNCHANGED err
    /\ UNCHANGED << cop, scan, lstore, match, callers, descriptor_cache, datapackage_descriptors, call, todo,
                    cur, http, contents, result, netlog, prior >>

\* get_resources_add with the cache.add forgotten: the pair is yielded unsaved
get_resources_add_unsaved(p) ==
    /\ pc[p] = "add"
    /\ out' = [out EXCEPT ![p] = Append(@, Yielded(cur[p], contents[p], "remote"))]
    /\ fetched' = fetched \cup {CurKey(p)}
    /\ pc' = [pc EXCEPT ![p] = "yielded"]
    /\ UNCHANGED << cop, scan, lstore, match, callers, layers, descriptor_cache, datapackage_descriptors,
                    call, todo, cur, http, contents, err, result, netlog, prior >>

\* self._cache.add(res, contents); yield (res, contents)
get_resources_add(p) ==
    /\ pc[p] = "add"
    /\ \E failing \in FailingSets :
        IF LCPutFails(layers, failing)
        THEN /\ Raise(p, "CacheWriteFailed")
             /\ UNCHANGED << layers, out, fetched >>
        ELSE /\ layers' = LCPut(layers, CurKey(p), contents[p], failing)
             /\ out' = [out EXCEPT ![p] = Append(@, Yielded(cur[p], contents[p], "remote"))]
             /\ fetched' = fetched \cup {CurKey(p)}
             /\ pc' = [pc EXCEPT ![p] = "yielded"]
             /\ UNCHANGED err
    /\ UNCHANGED << cop, scan, lstore, match, callers, descriptor_cache, datapackage_descriptors, call, todo,
                    cur, http, contents, result, netlog, prior >>

\* the for loop ends: StopIteration reaches the consumer
stop_iteration(p) ==
    /\ pc[p] = "iterate"
    /\ todo[p] = <<>>
    /\ IF call[p].op = "get_unique_resource"
       THEN IF out[p] = <<>>
            THEN /\ Raise(p, "No resources found")
                 /\ UNCHANGED result
            ELSE /\ result' = [result EXCEPT ![p] = out[p][1].content]
                 /\ pc' = [pc EXCEPT ![p] = "done"]
                 /\ UNCHANGED err
       ELSE /\ pc' = [pc EXCEPT ![p] = "done"]
            /\ UNCHANGED << err, result >>
    /\ UNCHANGED << cop, scan, lstore, match, callers, layers, descriptor_cache, datapackage_descriptors,
                    call, todo, cur, http, contents, out, netlog, fetched, prior >>

(***************************************************************************)
(* The consumers of the generator                                          *)
(***************************************************************************)
\* consumer_next in which get_unique_resource raises as soon as the
\* descriptor lists a second match, before retrieving it
consumer_next_counts_matches(p) ==
    /\ pc[p] = "yielded"
    /\ IF call[p].op = "get_unique_resource" /\ (Len(out[p]) >= 2 \/ todo[p] # <<>>)
       THEN Raise(p, "Multiple resources found")
       ELSE /\ pc' = [pc EXCEPT ![p] = "iterate"]
            /\ UNCHANGED err
    /\ UNCHANGED << cop, scan, lstore, match, callers, layers, descriptor_cache, datapackage_descriptors,
                    call, todo, cur, http, contents, out, result, netlog, fetched,
                    prior >>

\* consumer_next in which get_unique_resource returns the first content when a
\* second pair arrives, instead of raising
consumer_next_first_wins(p) ==
    /\ pc[p] = "yielded"
    /\ IF call[p].op = "get_unique_resource" /\ Len(out[p]) >= 2
       THEN /\ pc' = [pc EXCEPT ![p] = "done"]
            /\ result' = [result EXCEPT ![p] = out[p][1].content]
       ELSE /\ pc' = [pc EXCEPT ![p] = "iterate"]
            /\ UNCHANGED result
    /\ UNCHANGED << cop, scan, lstore, match, callers, layers, descriptor_cache, datapackage_descriptors,
                    call, todo, cur, http, contents, out, err, netlog, fetched,
                    prior >>

\* next(res): a plain consumer asks for the next pair; get_unique_resource
\* asks once more after the first pair and raises after the second
consumer_next(p) ==
    /\ pc[p] = "yielded"
    /\ IF call[p].op = "get_unique_resource" /\ Len(out[p]) >= 2
       THEN Raise(p, "Multiple resources found")
       ELSE /\ pc' = [pc EXCEPT ![p] = "iterate"]
            /\ UNCHANGED err
    /\ UNCHANGED << cop, scan, lstore, match, callers, layers, descriptor_cache, datapackage_descriptors,
                    call, todo, cur, http, contents, out, result, netlog, fetched,
                    prior >>

\* a plain consumer stops iterating between two yielded pairs
consumer_stop(p) ==
    /\ pc[p] = "yielded"
    /\ call[p].op = "get_resources"
    /\ pc' = [pc EXCEPT ![p] = "done"]
    /\ UNCHANGED << cop, scan, lstore, match, callers, layers, descriptor_cache, datapackage_descriptors,
                    call, todo, cur, http, contents, out, err, result, netlog,
                    fetched, prior >>

\* the call is over and its locals are gone
finish(p) ==
    /\ pc[p] = "done"
    /\ pc' = [pc EXCEPT ![p] = "idle"]
    /\ call' = [call EXCEPT ![p] = NoCall]
    /\ todo' = [todo EXCEPT ![p] = <<>>]
    /\ cur' = [cur EXCEPT ![p] = ""]
    /\ http' = [http EXCEPT ![p] = NoHttp]
    /\ contents' = [contents EXCEPT ![p] = NoContent]
    /\ out' = [out EXCEPT ![p] = <<>>]
    /\ err' = [err EXCEPT ![p] = "none"]
    /\ result' = [result EXCEPT ![p] = NoContent]
    /\ netlog' = [netlog EXCEPT ![p] = {}]
    /\ prior' = [prior EXCEPT ![p] = {}]
    /\ UNCHANGED << cop, scan, lstore, match, callers, layers, descriptor_cache, datapackage_descriptors,
                    fetched >>

\* Datastore.remove_from_cache(res)
remove_from_cache(p) ==
    /\ p \in callers
    /\ pc[p] = "idle"
    /\ \E ds \in QueryDatasets : \E i \in 1 .. Len(datapackage_json(ds)) :
        LET key == Key(ds, datapackage_json(ds)[i].name)
        IN  /\ layers' = LCDelete(layers, key)
            /\ fetched' = fetched \ {key}
            /\ prior' = [q \in Procs |-> prior[q] \ {key}]
    /\ UNCHANGED << cop, scan, lstore, match, callers, descriptor_cache, datapackage_descriptors, pc, call,
                    todo, cur, http, contents, out, err, result, netlog >>

Next ==
    \E p \in Procs :
        \/ call_get_resources(p)
        \/ call_get_unique_resource(p)
        \/ get_datapackage_descriptor(p)
        \/ get_descriptor(p)
        \/ fetch_from_url(p)
        \/ validate_checksum(p)
        \/ descriptor_add(p)
        \/ get_resources_examine(p)
        \/ get_resources_hit(p)
        \/ get_resources_add(p)
        \/ stop_iteration(p)
        \/ consumer_next(p)
        \/ consumer_stop(p)
        \/ finish(p)
        \/ remove_from_cache(p)

Spec == Init /\ [][Next]_vars

(***************************************************************************)
(* DatapackageDescriptor.get_resources on its own, over bounded            *)
(* descriptors, names and filters                                          *)
(***************************************************************************)
MaxResources == 2

PartsPool ==
    { EmptyDict,
      [year |-> StrV("2020")],
      [year |-> IntV(2020)],
      [year |-> StrV("2021")],
      [year |-> StrV("2020"), state |-> StrV("tx")] }

FilterPool ==
    { EmptyDict,
      [year |-> IntV(2020)],
      [year |-> StrV("2020")],
      [year |-> StrV("02020")],
      [year |-> StrV("None")],
      [year |-> NoneV],
      [state |-> StrV("tx")],
      [year |-> IntV(2020), state |-> StrV("tx")] }

NamePool == {"a", "b", "c"}

ResourcePool == {Resource(n, parts, 0) : n \in NamePool, parts \in PartsPool}

\* descriptors of at most MaxResources resources with distinct names
DescriptorPool ==
    UNION { { r \in [1 .. n -> ResourcePool] :
                \A i, j \in 1 .. n : i # j => r[i].name # r[j].name }
            : n \in 0 .. MaxResources }

MatchDataset == "eia861"

InitMatch ==
    /\ callers = {}
    /\ layers = <<>>
    /\ AtRest
    /\ \E r \in DescriptorPool, n \in NamePool \cup {""}, f \in FilterPool :
        match = [name |-> n, resources |-> r, filters |-> f, applied |-> FALSE,
                 keys |-> <<>>]

\* list(descriptor.get_resources(name, **filters))
descriptor_get_resources ==
    /\ ~match.applied
    /\ LET names == desc_get_resources(match.resources, match.name, match.filters)
       IN  match' = [match EXCEPT
                        !.applied = TRUE,
                        !.keys = [i \in 1 .. Len(names) |->
                                    PudlResourceKey(MatchDataset, DOI[MatchDataset], names[i])]]
    /\ UNCHANGED << cop, scan, lstore, callers, layers, descriptor_cache,
                    datapackage_descriptors, pc, call, todo, cur, http, contents,
                    out, err, result, netlog, fetched, prior >>

NextMatch == descriptor_get_resources

SpecMatch == InitMatch /\ [][NextMatch]_vars

(***************************************************************************)
(* Properties                                                              *)
(***************************************************************************)
(***************************************************************************)
(* The cache on its own: the operations Datastore applies to self._cache,  *)
(* in any order, on two keys and two byte strings                          *)
(***************************************************************************)
CacheKeys == {Key("eia861", "a"), Key("eia861", "b")}

CacheBytes == {1, 2}

\* what get(key) would return, Absent when no layer holds the key
Held(ls, key) == IF LCContains(ls, key) THEN LCGetValue(ls, key) ELSE Absent

\* the layers that hold the key
Holders(ls, key) == {i \in 1 .. Len(ls) : LayerContains(ls[i], key)}

Summary(c) ==
    [key |-> c.key, failing |-> c.failing, op |-> c.op, arg |-> c.arg,
     value |-> c.value, answer |-> c.answer, error |-> c.error, old |-> c.old,
     holders |-> c.holders]

CacheOp(op, key) ==
    [key |-> key, failing |-> {}, op |-> op, arg |-> Absent, value |-> Absent,
     answer |-> FALSE, error |-> "none", old |-> Held(layers, key),
     holders |-> Holders(layers, key), prev |-> Summary(cop)]

CacheOnly ==
    UNCHANGED << scan, lstore, match, callers, descriptor_cache,
                 datapackage_descriptors, pc, call, todo, cur, http, contents,
                 out, err, result, netlog, fetched, prior >>

InitCache ==
    /\ callers = {}
    /\ \E n \in 0 .. MaxLayers : layers = [i \in 1 .. n |-> EmptyLayer]
    /\ AtRest
    /\ match = NoMatch

\* self._cache.add(res, contents), the writes of `failing` failing
cache_add(key, content, failing) ==
    /\ layers' = LCPut(layers, key, content, failing)
    /\ cop' = [CacheOp("put", key) EXCEPT
                 !.arg = content,
                 !.failing = failing,
                 !.error = IF LCPutFails(layers, failing)
                           THEN "CacheWriteFailed" ELSE "none"]
    /\ CacheOnly

\* a get that lets the failure of a backfill write escape
cache_get_backfill_raises(key, failing) ==
    /\ IF LCContains(layers, key)
       THEN /\ layers' = LCGetBackfill(layers, key, failing)
            /\ cop' = [CacheOp("get", key) EXCEPT
                         !.value = IF \E i \in failing : i < LCFirstHit(layers, key)
                                   THEN Absent ELSE LCGetValue(layers, key),
                         !.error = IF \E i \in failing : i < LCFirstHit(layers, key)
                                   THEN "CacheLayerUnavailable" ELSE "none",
                         !.failing = failing]
       ELSE /\ layers' = layers
            /\ cop' = [CacheOp("get", key) EXCEPT
                         !.failing = failing,
                         !.error = "ResourceNotFound"]
    /\ CacheOnly

\* self._cache.get(res), the backfill writes of `failing` failing
cache_get(key, failing) ==
    /\ IF LCContains(layers, key)
       THEN /\ layers' = LCGetBackfill(layers, key, failing)
            /\ cop' = [CacheOp("get", key) EXCEPT
                         !.value = LCGetValue(layers, key),
                         !.failing = failing]
       ELSE /\ layers' = layers
            /\ cop' = [CacheOp("get", key) EXCEPT
                         !.failing = failing,
                         !.error = "ResourceNotFound"]
    /\ CacheOnly

\* self._cache.contains(res)
cache_contains(key) ==
    /\ layers' = layers
    /\ cop' = [CacheOp("contains", key) EXCEPT !.answer = LCContains(layers, key)]
    /\ CacheOnly

\* self._cache.is_optimally_cached(res)
cache_is_optimally_cached(key) ==
    /\ layers' = layers
    /\ cop' = [CacheOp("is_optimally_cached", key) EXCEPT
                 !.answer = LCIsOptimallyCached(layers, key)]
    /\ CacheOnly

\* a remove_from_cache that only deletes what is_optimally_cached
cache_delete_if_optimal(key) ==
    /\ layers' = IF LCIsOptimallyCached(layers, key)
                 THEN LCDelete(layers, key) ELSE layers
    /\ cop' = CacheOp("delete", key)
    /\ CacheOnly

\* Datastore.remove_from_cache(res): self._cache.delete(res)
cache_delete(key) ==
    /\ layers' = LCDelete(layers, key)
    /\ cop' = CacheOp("delete", key)
    /\ CacheOnly

NextCache ==
    \E key \in CacheKeys :
        \/ \E content \in CacheBytes, failing \in FailingSets :
                cache_add(key, content, failing)
        \/ \E failing \in FailingSets : cache_get(key, failing)
        \/ cache_contains(key)
        \/ cache_is_optimally_cached(key)
        \/ cache_delete(key)

SpecCache == InitCache /\ [][NextCache]_vars

(***************************************************************************)
(* validate_cache over a cache directory left by earlier runs, some of its *)
(* files damaged since they were written                                   *)
(***************************************************************************)
\* datasets = dstore.get_known_datasets(), sorted
ValidateDatasets == <<"eia860", "eia861">>

\* args.partition: values parsed from KEY=VALUE are strings
PartitionChoices == {EmptyDict, [year |-> StrV("2020")]}

\* the cached resources the scan may find
ScanKeys == {Key("eia860", "d"), Key("eia861", "a"), Key("eia861", "b")}

\* bytes that differ from the published content
Damaged(content) == (content + 1) % (MaxPayload + 1)

FileStates == {"absent", "valid", "damaged"}

FileBytes(key, state) ==
    CASE state = "valid" -> PublishedPayload[key.name]
      [] state = "damaged" -> Damaged(PublishedPayload[key.name])
      [] OTHER -> Absent

\* the files that differ between the caches found: those of ScanKeys in the
\* first layer, and in the second layer that of resource a
ScanFiles(n) ==
    {f \in (1 .. n) \X ScanKeys : f[1] = 1 \/ f[2] = Key("eia861", "a")}

\* a cache of n layers: the files of ScanFiles as `files` says, and the
\* datapackage.json of every dataset in the first layer when `described`
CacheFound(n, files, described) ==
    [i \in 1 .. n |->
        [k \in Keys |->
            IF <<i, k>> \in ScanFiles(n) THEN FileBytes(k, files[<<i, k>>])
            ELSE IF described /\ i = 1 /\ k.name = DatapackageName
                    /\ k = Key(k.dataset, DatapackageName)
            THEN DescriptorBytes(k.dataset)
            ELSE Absent]]

InitValidate ==
    /\ callers = {1}
    /\ \E n \in 0 .. MaxLayers, described \in BOOLEAN :
        \E files \in [ScanFiles(n) -> FileStates] :
            layers = CacheFound(n, files, described)
    /\ AtRest
    /\ match = NoMatch

\* validate_cache(dstore, datasets, args) is called
call_validate_cache(p) ==
    /\ p \in callers
    /\ pc[p] = "idle"
    /\ scan = NoScan
    /\ \E part \in PartitionChoices :
        call' = [call EXCEPT ![p] =
                    [dataset |-> Head(ValidateDatasets), filters |-> part,
                     op |-> "validate_cache", cached_only |-> TRUE,
                     skip_optimally_cached |-> FALSE]]
    /\ scan' = [NoScan EXCEPT !.datasets = ValidateDatasets, !.before = layers]
    /\ pc' = [pc EXCEPT ![p] = "descriptor"]
    /\ prior' = [prior EXCEPT ![p] = fetched]
    /\ UNCHANGED << cop, lstore, match, callers, layers, descriptor_cache,
                    datapackage_descriptors, todo, cur, http, contents, out, err,
                    result, netlog, fetched >>

\* a loop body that lets ChecksumMismatch escape
validate_cache_check_aborts(p) ==
    /\ pc[p] = "yielded"
    /\ call[p].op = "validate_cache"
    /\ LET y == out[p][Len(out[p])]
           ok == ChecksumOk(datapackage_json(call[p].dataset), y.name, y.content)
       IN  /\ scan' = [scan EXCEPT !.num_total = @ + 1,
                                   !.checked = @ \cup {CurKey(p)}]
           /\ IF ok
              THEN pc' = [pc EXCEPT ![p] = "iterate"] /\ UNCHANGED err
              ELSE Raise(p, "ChecksumMismatch")
    /\ UNCHANGED << cop, lstore, match, callers, layers, descriptor_cache,
                    datapackage_descriptors, call, todo, cur, http, contents, out,
                    result, netlog, fetched, prior >>

\* the body of the for loop over get_resources(cached_only=True): count,
\* validate_checksum, and on ChecksumMismatch count and remove_from_cache
validate_cache_check(p) ==
    /\ pc[p] = "yielded"
    /\ call[p].op = "validate_cache"
    /\ LET y == out[p][Len(out[p])]
           ok == ChecksumOk(datapackage_json(call[p].dataset), y.name, y.content)
       IN  /\ scan' = [scan EXCEPT
                         !.num_total = @ + 1,
                         !.checked = @ \cup {CurKey(p)},
                         !.num_invalid = IF ok THEN @ ELSE @ + 1,
                         !.removed = IF ok THEN @ ELSE @ \cup {CurKey(p)}]
           /\ layers' = IF ok THEN layers ELSE LCDelete(layers, CurKey(p))
           /\ fetched' = IF ok THEN fetched ELSE fetched \ {CurKey(p)}
           /\ prior' = IF ok THEN prior ELSE [q \in Procs |-> prior[q] \ {CurKey(p)}]
    /\ pc' = [pc EXCEPT ![p] = "iterate"]
    /\ UNCHANGED << cop, lstore, match, callers, descriptor_cache,
                    datapackage_descriptors, call, todo, cur, http, contents, out,
                    err, result, netlog >>

\* get_resources is exhausted: log the counts, go on with the next dataset
validate_cache_next_dataset(p) ==
    /\ pc[p] = "iterate"
    /\ todo[p] = <<>>
    /\ call[p].op = "validate_cache"
    /\ scan' = [scan EXCEPT
                  !.datasets = Tail(@),
                  !.num_total = 0,
                  !.num_invalid = 0,
                  !.log = Append(@, [dataset |-> call[p].dataset,
                                     num_total |-> scan.num_total,
                                     num_invalid |-> scan.num_invalid])]
    /\ IF Tail(scan.datasets) = <<>>
       THEN pc' = [pc EXCEPT ![p] = "done"] /\ UNCHANGED call
       ELSE /\ pc' = [pc EXCEPT ![p] = "descriptor"]
            /\ call' = [call EXCEPT ![p].dataset = Head(Tail(scan.datasets))]
    /\ cur' = [cur EXCEPT ![p] = ""]
    /\ http' = [http EXCEPT ![p] = NoHttp]
    /\ contents' = [contents EXCEPT ![p] = NoContent]
    /\ out' = [out EXCEPT ![p] = <<>>]
    /\ netlog' = [netlog EXCEPT ![p] = {}]
    /\ UNCHANGED << cop, lstore, match, callers, layers, descriptor_cache,
                    datapackage_descriptors, todo, err, result, fetched, prior >>

NextValidate ==
    \E p \in Procs :
        \/ call_validate_cache(p)
        \/ get_datapackage_descriptor(p)
        \/ get_descriptor(p)
        \/ fetch_from_url(p)
        \/ descriptor_add(p)
        \/ get_resources_examine(p)
        \/ get_resources_hit(p)
        \/ validate_cache_check(p)
        \/ validate_cache_next_dataset(p)

SpecValidate == InitValidate /\ [][NextValidate]_vars

(***************************************************************************)
(* LocalStore: one put of a key, written in chunks to a temporary file and *)
(* renamed, while a reader calls contains and get on the same key          *)
(***************************************************************************)
ChunkCount == 2

Chunks == {1, 2}

\* the byte strings put, as sequences of chunks
Contents == [1 .. ChunkCount -> Chunks]

StoreOnly ==
    UNCHANGED << cop, scan, match, callers, layers, descriptor_cache,
                 datapackage_descriptors, pc, call, todo, cur, http, contents,
                 out, err, result, netlog, fetched, prior >>

InitStore ==
    /\ callers = {}
    /\ layers = <<>>
    /\ AtRest
    /\ match = NoMatch

\* put(key, b) starts: an empty temporary file next to the target
put_begin(b) ==
    /\ lstore.writing = NoFile
    /\ lstore' = [lstore EXCEPT !.writing = b, !.old = lstore.file, !.tmp = <<>>]
    /\ StoreOnly

\* a put that writes the next chunk into the target file itself
put_write_in_place ==
    /\ lstore.writing # NoFile
    /\ Len(lstore.tmp) < Len(lstore.writing)
    /\ lstore' = [lstore EXCEPT
                    !.tmp = Append(@, lstore.writing[Len(@) + 1]),
                    !.file = Append(lstore.tmp, lstore.writing[Len(lstore.tmp) + 1])]
    /\ StoreOnly

\* the next chunk is written to the temporary file
put_write ==
    /\ lstore.writing # NoFile
    /\ Len(lstore.tmp) < Len(lstore.writing)
    /\ lstore' = [lstore EXCEPT !.tmp = Append(@, lstore.writing[Len(@) + 1])]
    /\ StoreOnly

\* the complete temporary file is renamed to the target
put_rename ==
    /\ lstore.writing # NoFile
    /\ lstore.tmp = lstore.writing
    /\ lstore' = [lstore EXCEPT !.file = lstore.tmp, !.tmp = <<>>, !.writing = NoFile]
    /\ StoreOnly

\* what a reader's call leaves: its result and the put under way, if any
Read(op) ==
    [op |-> op, value |-> NoFile, answer |-> FALSE, old |-> lstore.old,
     pending |-> lstore.writing, partial |-> lstore.tmp]

\* get(key) by a reader: the bytes of the target file
store_get ==
    /\ lstore' = [lstore EXCEPT !.seen = [Read("get") EXCEPT !.value = lstore.file]]
    /\ StoreOnly

\* contains(key) by a reader
store_contains ==
    /\ lstore' = [lstore EXCEPT
                    !.seen = [Read("contains") EXCEPT !.answer = lstore.file # NoFile]]
    /\ StoreOnly

NextStore ==
    \/ \E b \in Contents : put_begin(b)
    \/ put_write
    \/ put_rename
    \/ store_get
    \/ store_contains

SpecStore == InitStore /\ [][NextStore]_vars

(***************************************************************************)
(* Two callers of one Datastore query the same resource at the same time   *)
(***************************************************************************)
\* the filters both callers use: they select resource a only
RaceFilters == [year |-> StrV("2020")]

\* The Datastore has answered a query on the dataset before: its metadata is
\* memoized by the Datastore and by the ZenodoFetcher and cached in every
\* layer; no resource is cached yet.
InitRace ==
    /\ callers = Procs
    /\ \E n \in 0 .. MaxLayers :
        layers = [i \in 1 .. n |->
                    [EmptyLayer EXCEPT ![Key("eia861", DatapackageName)] =
                                            DescriptorBytes("eia861")]]
    /\ descriptor_cache = {DOI["eia861"]}
    /\ datapackage_descriptors = {DOI["eia861"]}
    /\ pc = [p \in Procs |-> "idle"]
    /\ call = [p \in Procs |-> NoCall]
    /\ todo = [p \in Procs |-> <<>>]
    /\ cur = [p \in Procs |-> ""]
    /\ http = [p \in Procs |-> NoHttp]
    /\ contents = [p \in Procs |-> NoContent]
    /\ out = [p \in Procs |-> <<>>]
    /\ err = [p \in Procs |-> "none"]
    /\ result = [p \in Procs |-> NoContent]
    /\ netlog = [p \in Procs |-> {}]
    /\ fetched = {}
    /\ prior = [p \in Procs |-> {}]
    /\ cop = NoCop
    /\ scan = NoScan
    /\ lstore = NoStore
    /\ match = NoMatch

\* get_resources("eia861", year="2020"), once per caller
call_same_resource(p) ==
    /\ call[p] = NoCall
    /\ StartCall(p, [dataset |-> "eia861", filters |-> RaceFilters,
                     op |-> "get_resources", cached_only |-> FALSE,
                     skip_optimally_cached |-> FALSE])

NextRace ==
    \E p \in Procs :
        \/ call_same_resource(p)
        \/ get_datapackage_descriptor(p)
        \/ get_descriptor(p)
        \/ fetch_from_url(p)
        \/ validate_checksum(p)
        \/ get_resources_examine(p)
        \/ get_resources_hit(p)
        \/ get_resources_add(p)
        \/ stop_iteration(p)
        \/ consumer_next(p)

SpecRace == InitRace /\ [][NextRace]_vars

(***************************************************************************)
(* Datastore.get_datapackage_descriptor called on its own, as validate_cache *)
(* and print_partitions call it, on a cache that may hold datapackage.json *)
(***************************************************************************)
\* a cache of n layers in which layer i holds the datapackage.json of dataset
\* ds when holds[<<i, ds>>]
DescribedCache(n, holds) ==
    [i \in 1 .. n |->
        [k \in Keys |->
            IF k.name = DatapackageName /\ k = Key(k.dataset, DatapackageName)
                 /\ holds[<<i, k.dataset>>]
            THEN DescriptorBytes(k.dataset)
            ELSE Absent]]

InitDescriptor ==
    /\ callers = {1}
    /\ \E n \in 0 .. MaxLayers :
        \E holds \in [(1 .. n) \X Datasets -> BOOLEAN] :
            layers = DescribedCache(n, holds)
    /\ AtRest
    /\ match = NoMatch

\* dstore.get_datapackage_descriptor(dataset) is called
call_get_datapackage_descriptor(p) ==
    \E ds \in Datasets :
        StartCall(p, [dataset |-> ds, filters |-> EmptyDict,
                      op |-> "get_datapackage_descriptor",
                      cached_only |-> FALSE, skip_optimally_cached |-> FALSE])

\* return self._datapackage_descriptors[doi]
descriptor_return(p) ==
    /\ pc[p] = "iterate"
    /\ call[p].op = "get_datapackage_descriptor"
    /\ pc' = [pc EXCEPT ![p] = "done"]
    /\ UNCHANGED << cop, scan, lstore, match, callers, layers, descriptor_cache, datapackage_descriptors,
                    call, todo, cur, http, contents, out, err, result, netlog,
                    fetched, prior >>

NextDescriptor ==
    \E p \in Procs :
        \/ call_get_datapackage_descriptor(p)
        \/ get_datapackage_descriptor(p)
        \/ get_descriptor(p)
        \/ fetch_from_url(p)
        \/ descriptor_add(p)
        \/ descriptor_return(p)
        \/ finish(p)

SpecDescriptor == InitDescriptor /\ [][NextDescriptor]_vars

(***************************************************************************)
(* get_resources by one caller while another calls remove_from_cache, on a *)
(* Datastore whose cache already holds the resource                        *)
(***************************************************************************)
\* the resource that RaceFilters selects
CachedKey == Key("eia861", "a")

InitInvalidate ==
    /\ callers = Procs
    /\ \E n \in 1 .. MaxLayers :
        layers = [i \in 1 .. n |->
                    [EmptyLayer EXCEPT ![Key("eia861", DatapackageName)] =
                                            DescriptorBytes("eia861"),
                                       ![CachedKey] = PublishedPayload["a"]]]
    /\ descriptor_cache = {DOI["eia861"]}
    /\ datapackage_descriptors = {DOI["eia861"]}
    /\ pc = [p \in Procs |-> "idle"]
    /\ call = [p \in Procs |-> NoCall]
    /\ todo = [p \in Procs |-> <<>>]
    /\ cur = [p \in Procs |-> ""]
    /\ http = [p \in Procs |-> NoHttp]
    /\ contents = [p \in Procs |-> NoContent]
    /\ out = [p \in Procs |-> <<>>]
    /\ err = [p \in Procs |-> "none"]
    /\ result = [p \in Procs |-> NoContent]
    /\ netlog = [p \in Procs |-> {}]
    /\ fetched = {CachedKey}
    /\ prior = [p \in Procs |-> {}]
    /\ cop = NoCop
    /\ scan = NoScan
    /\ lstore = NoStore
    /\ match = NoMatch

NextInvalidate ==
    \E p \in Procs :
        \/ call_same_resource(p)
        \/ get_datapackage_descriptor(p)
        \/ get_descriptor(p)
        \/ fetch_from_url(p)
        \/ validate_checksum(p)
        \/ get_resources_examine(p)
        \/ get_resources_hit(p)
        \/ get_resources_add(p)
        \/ stop_iteration(p)
        \/ consumer_next(p)
        \/ remove_from_cache(p)

SpecInvalidate == InitInvalidate /\ [][NextInvalidate]_vars

Last(s) == s[Len(s)]

Descriptor(p) == datapackage_json(call[p].dataset)

\* the names the running call's filters select, in descriptor order
Matching(p) == desc_get_resources(Descriptor(p), "", call[p].filters)

ResourceUrl(key) == Url(key.dataset, key.name)

\* What C1 says of one yielded pair that came from the remote: it was
\* requested, it is checksum-valid, and the layered cache now holds it.
FetchedPairRequestedAndValid(p, y) ==
    /\ Url(call[p].dataset, y.name) \in netlog[p]
    /\ ChecksumOk(Descriptor(p), y.name, y.content)

FetchedPairCached(p, y) ==
    /\ LCContains(layers, Key(call[p].dataset, y.name))
    /\ LCGetValue(layers, Key(call[p].dataset, y.name)) = y.content

\* C1 as claimed: whenever get_resources has yielded a pair it fetched from the
\* remote, the resource was requested and validated and the layered cache
\* contains the key, get(key) returning the yielded bytes.
C1_FetchedThenCached ==
    \A p \in Procs : \A i \in 1 .. Len(out[p]) :
        out[p][i].src = "remote" =>
            /\ FetchedPairRequestedAndValid(p, out[p][i])
            /\ FetchedPairCached(p, out[p][i])

\* C1 amended: the same, the cache holding the key provided the Datastore
\* was built with at least one cache layer.
C1_FetchedThenCachedWithLayers ==
    \A p \in Procs : \A i \in 1 .. Len(out[p]) :
        out[p][i].src = "remote" =>
            /\ FetchedPairRequestedAndValid(p, out[p][i])
            /\ Len(layers) >= 1 => FetchedPairCached(p, out[p][i])

\* a pair fetched from the remote was just yielded while the first of two
\* layers failed its write: the second layer serves it
C1_Witness ==
    \E p \in Procs :
        /\ pc[p] = "yielded"
        /\ Last(out[p]).src = "remote"
        /\ Len(layers) = 2
        /\ ~LCIsOptimallyCached(layers, CurKey(p))
        /\ LCGetValue(layers, CurKey(p)) = Last(out[p]).content
\* C2: when the downloaded bytes do not hash to the expected checksum, the
\* call ends with ChecksumMismatch reaching the caller, nothing is yielded and
\* no cache layer is written: the key is in no layer afterwards.
C2_ChecksumMismatchPropagates ==
    [][\A p \in Procs :
        (pc[p] = "validate" /\ pc'[p] # "validate"
            /\ ~ChecksumOk(Descriptor(p), cur[p], contents[p]))
        => /\ pc'[p] = "done"
           /\ err'[p] = "ChecksumMismatch"
           /\ out'[p] = out[p]
           /\ layers' = layers
           /\ ~LCContains(layers', CurKey(p))]_vars

\* a call ended by ChecksumMismatch on a 200 answer with the wrong bytes
C2_Witness ==
    \E p \in Procs :
        /\ pc[p] = "done"
        /\ err[p] = "ChecksumMismatch"
        /\ http[p].status = StatusOk
        /\ md5(contents[p]) # get_resource_metadata(Descriptor(p), cur[p]).hash
        /\ ~LCContains(layers, CurKey(p))
\* the call ran its loop to the end without an error
Exhausted(p) == pc[p] = "done" /\ err[p] = "none" /\ todo[p] = <<>>

InSeq(x, s) == \E i \in 1 .. Len(s) : s[i] = x

\* What C3 says of a key k that an earlier call fetched and yielded and that
\* was not invalidated since, in a later call on k's dataset: no request
\* for k goes to the remote, k is only ever yielded from the cache with the
\* bytes cached for it, and a call with default flags that runs to its end
\* yields k if the filters select it.
ServedFromCache(p, k) ==
    /\ ResourceUrl(k) \notin netlog[p]
    /\ \A i \in 1 .. Len(out[p]) :
          out[p][i].name = k.name =>
             /\ out[p][i].src = "cache"
             /\ out[p][i].content = PublishedPayload[k.name]
    /\ (Exhausted(p) /\ ~call[p].skip_optimally_cached /\ InSeq(k.name, Matching(p)))
          => \E i \in 1 .. Len(out[p]) : out[p][i].name = k.name

PartsEqualFilters(res, filters) ==
    \A k \in DOMAIN filters :
        k \in DOMAIN res.parts /\ str(res.parts[k]) = str(filters[k])

RECURSIVE SelectedKeys(_, _, _)
SelectedKeys(resources, name, filters) ==
    IF resources = <<>> THEN <<>>
    ELSE LET res == Head(resources)
             rest == SelectedKeys(Tail(resources), name, filters)
         IN  IF (name = "" \/ res.name = name) /\ PartsEqualFilters(res, filters)
             THEN <<PudlResourceKey(MatchDataset, DOI[MatchDataset], res.name)>> \o rest
             ELSE rest

\* C4: DatapackageDescriptor.get_resources yields, in descriptor order, exactly
\* the keys of the resources (of the given name, when one is given) whose
\* parts mapping equals every supplied filter value after string coercion of
\* both sides.
C4_YieldsExactlyEqualParts ==
    match.applied =>
        match.keys = SelectedKeys(match.resources, match.name, match.filters)

\* What does hold: the same, on descriptors whose resources all carry every
\* filtered partition key.
C4_YieldsExactlyEqualPartsWherePresent ==
    (/\ match.applied
     /\ \A i \in 1 .. Len(match.resources) :
           DOMAIN match.filters \subseteq DOMAIN match.resources[i].parts)
    => match.keys = SelectedKeys(match.resources, match.name, match.filters)

\* the scenario of the specification: a tagged 2020, b tagged 2021, and the
\* filter year=2020 given as a number, yields exactly the key of a
C4_Scenario ==
    /\ match.applied
    /\ match.resources = << Resource("a", [year |-> StrV("2020")], 0),
                            Resource("b", [year |-> StrV("2021")], 0) >>
    /\ match.filters = [year |-> IntV(2020)]
    /\ match.name = ""
    /\ match.keys = << PudlResourceKey(MatchDataset, DOI[MatchDataset], "a") >>
\* the errors of retrieving a descriptor or a resource, which end a call
\* whatever the number of matches
RetrievalErrors ==
    {"RemoteFetchFailed", "ChecksumMismatch", "CacheWriteFailed", "ResourceNotFound"}

\* C5: a get_unique_resource call that no retrieval error ended returns the
\* bytes of the resource when exactly one resource matches the filters, fails
\* with KeyError 'Multiple resources found' when more than one matches and
\* with KeyError 'No resources found' when none does.
C5_UniqueResource ==
    \A p \in Procs :
        (/\ pc[p] = "done"
         /\ call[p].op = "get_unique_resource"
         /\ err[p] \notin RetrievalErrors)
        => LET m == Matching(p)
           IN  /\ Len(m) = 1 =>
                     /\ err[p] = "none"
                     /\ out[p][1].name = m[1]
                     /\ result[p] = out[p][1].content
                     /\ ChecksumOk(Descriptor(p), m[1], result[p])
               /\ Len(m) > 1 =>
                     /\ err[p] = "Multiple resources found"
                     /\ result[p] = NoContent
               /\ Len(m) = 0 =>
                     /\ err[p] = "No resources found"
                     /\ result[p] = NoContent

\* the three outcomes are reached
C5_Witness ==
    \E p \in Procs :
        /\ pc[p] = "done"
        /\ call[p].op = "get_unique_resource"
        /\ Len(Matching(p)) > 1
        /\ err[p] = "Multiple resources found"

C5_WitnessOne ==
    \E p \in Procs :
        /\ pc[p] = "done"
        /\ call[p].op = "get_unique_resource"
        /\ Len(Matching(p)) = 1
        /\ result[p] = PublishedPayload[Matching(p)[1]]

C5_WitnessNone ==
    \E p \in Procs :
        /\ pc[p] = "done"
        /\ call[p].op = "get_unique_resource"
        /\ Len(Matching(p)) = 0
        /\ err[p] = "No resources found"
\* caller p examines the next key in this step
Examines(p) == pc[p] = "iterate" /\ todo[p] # <<>> /\ todo'[p] # todo[p]

\* C6: with skip_optimally_cached, a key that the layered cache reports as
\* optimally cached when it is examined is skipped: nothing is yielded, read,
\* fetched or written for it, whatever cached_only is; without
\* skip_optimally_cached such a key goes to the cache-hit branch, which yields
\* the bytes the layered cache holds for it.
C6_SkipOptimallyCached ==
    [][\A p \in Procs :
        /\ (Examines(p) /\ LCIsOptimallyCached(layers, Key(call[p].dataset, Head(todo[p]))))
            => IF call[p].skip_optimally_cached
               THEN /\ pc'[p] = "iterate"
                    /\ out'[p] = out[p]
                    /\ netlog'[p] = netlog[p]
                    /\ layers' = layers
               ELSE pc'[p] = "hit"
        /\ (pc[p] = "hit" /\ pc'[p] # "hit" /\ LCContains(layers, CurKey(p)))
            => /\ pc'[p] = "yielded"
               /\ out'[p] = Append(out[p],
                                   Yielded(cur[p], LCGetValue(layers, CurKey(p)), "cache"))
      ]_vars

\* an optimally cached key has just been skipped by a call with
\* skip_optimally_cached: it is in the first layer and was not yielded
C6_Witness ==
    \E p \in Procs :
        /\ pc[p] = "iterate"
        /\ call[p].skip_optimally_cached
        /\ cur[p] # ""
        /\ LCIsOptimallyCached(layers, CurKey(p))
        /\ \A i \in 1 .. Len(out[p]) : out[p][i].name # cur[p]

\* the names of the yielded pairs, in order
OutNames(p) == [i \in 1 .. Len(out[p]) |-> out[p][i].name]

RECURSIVE CachedOf(_, _)
\* the names of a sequence whose key the layered cache contains
CachedOf(names, ds) ==
    IF names = <<>> THEN <<>>
    ELSE IF LCContains(layers, Key(ds, Head(names)))
         THEN <<Head(names)>> \o CachedOf(Tail(names), ds)
         ELSE CachedOf(Tail(names), ds)

Answered(p) == pc[p] = "http" /\ http'[p] # http[p]

\* C8: in a resource fetch, a retryable answer within the retry budget is
\* followed by another attempt and shows no error to the caller; an answer of
\* 200 ends the request with the body of that answer as the downloaded
\* content, which get_resource returns once its checksum is validated.
C8_RetryThenSuccess ==
    [][\A p \in Procs :
        /\ (Answered(p) /\ http[p].purpose = "resource")
            => /\ (/\ Retryable(http'[p].status, status_forcelist)
                   /\ http'[p].attempts <= RetryTotal)
                  => pc'[p] = "http" /\ err'[p] = "none"
               /\ http'[p].status = StatusOk
                  => /\ pc'[p] = "validate"
                     /\ contents'[p] = http'[p].body
                     /\ err'[p] = "none"
        /\ (/\ pc[p] = "validate" /\ pc'[p] # "validate"
            /\ ChecksumOk(Descriptor(p), cur[p], contents[p]))
            => /\ pc'[p] = "add"
               /\ contents'[p] = contents[p]
               /\ err'[p] = "none"
      ]_vars

\* get_resource has returned the payload of a 200 that came as the third
\* answer, after two retryable ones
C8_Witness ==
    \E p \in Procs :
        /\ pc[p] = "add"
        /\ http[p].purpose = "resource"
        /\ http[p].attempts = 3
        /\ http[p].status = StatusOk
        /\ contents[p] = http[p].body
        /\ ChecksumOk(Descriptor(p), cur[p], contents[p])
        /\ err[p] = "none"

Fatal(status) == status # StatusOk /\ ~Retryable(status, status_forcelist)

\* C9: an answer whose status is neither 200 nor retryable ends the fetch at
\* once with RemoteFetchFailed: it is the last attempt (the first one when it
\* answers the first attempt), and nothing is yielded or written to the cache.
C9_FatalStatusFailsAtOnce ==
    [][\A p \in Procs :
        (Answered(p) /\ Fatal(http'[p].status))
        => /\ pc'[p] = "done"
           /\ err'[p] = "RemoteFetchFailed"
           /\ http'[p].attempts = http[p].attempts + 1
           /\ layers' = layers
           /\ out'[p] = out[p]]_vars

\* a resource fetch failed on a 404 to its first attempt; the key is in no
\* cache layer
C9_Witness ==
    \E p \in Procs :
        /\ pc[p] = "done"
        /\ err[p] = "RemoteFetchFailed"
        /\ http[p].purpose = "resource"
        /\ http[p].status = 404
        /\ http[p].attempts = 1
        /\ ~LCContains(layers, CurKey(p))

\* every request makes at most n attempts; while an attempt is pending the
\* caller sees no error; the n-th retryable answer and every other failure end
\* the call with RemoteFetchFailed
RetryBounded(n) ==
    \A p \in Procs :
        /\ http[p].attempts <= n
        /\ pc[p] = "http" => err[p] = "none"
        /\ (http[p].attempts = n /\ Retryable(http[p].status, status_forcelist))
           => pc[p] # "http"
        /\ (/\ http[p].attempts > 0
            /\ http[p].status # StatusOk
            /\ pc[p] # "http")
           => pc[p] = "done" /\ err[p] = "RemoteFetchFailed"

\* C10 as claimed: a fetch makes at most 3 attempts, the retry budget, and
\* then ends with RemoteFetchFailed.
C10_AtMostBudgetAttempts == RetryBounded(RetryTotal)

\* C10 amended: a fetch makes at most 4 attempts, the first one and the 3
\* retries of the budget, and then ends with RemoteFetchFailed.
C10_AtMostBudgetRetries == RetryBounded(RetryTotal + 1)

\* a fetch gave up after its fourth retryable answer
C10_Witness ==
    \E p \in Procs :
        /\ pc[p] = "done"
        /\ err[p] = "RemoteFetchFailed"
        /\ http[p].attempts = RetryTotal + 1
        /\ Retryable(http[p].status, status_forcelist)
(***************************************************************************)
(* C11 .. C16: the layered cache                                           *)
(***************************************************************************)
\* the step is a get(k) that directly follows a put(k, b) which returned
\* without error, on a cache of at least one layer
GetAfterPut ==
    /\ Len(layers) > 0
    /\ cop.op = "put"
    /\ cop.error = "none"
    /\ cop'.op = "get"
    /\ cop'.key = cop.key

\* the get returns exactly the bytes of the put before it
ReturnsThePut == cop'.error = "none" /\ cop'.value = cop.arg

\* every layer whose write failed either comes after a layer that was
\* written, or holds nothing or the same bytes for the key
NoStaleLayerAbove ==
    \A i \in cop.failing :
        \/ \E j \in 1 .. (i - 1) : j \notin cop.failing
        \/ layers[i][cop.key] \in {Absent, cop.arg}

\* C11 as stated: put(k, b) followed by get(k) returns exactly b, on any
\* layered cache of at least one layer, also when k held a different
\* value before.
C11_RoundTrip == [][GetAfterPut => ReturnsThePut]_vars

\* C11 amended: put(k, b) followed by get(k) returns exactly b, also when k
\* held a different value before, provided no layer of higher priority than
\* the first layer the put wrote still holds a different value for k.
C11_RoundTripOfWrittenLayers ==
    [][(GetAfterPut /\ NoStaleLayerAbove) => ReturnsThePut]_vars

\* a get returned the bytes of the put before it, which replaced other bytes
C11_Witness ==
    /\ cop.op = "get"
    /\ cop.prev.op = "put"
    /\ cop.prev.key = cop.key
    /\ cop.prev.error = "none"
    /\ cop.prev.old \notin {Absent, cop.prev.arg}
    /\ cop.value = cop.prev.arg

\* the same, the put having failed on one of two layers
C11_WitnessPartial == C11_Witness /\ cop.prev.failing # {}
\* C12: after Datastore.remove_from_cache(k) no layer contains k and the
\* call raised nothing, whether k was in all, some or none of the layers
\* (so also the second time); a contains(k) that follows answers false.
C12_DeleteIdempotentAndTotal ==
    /\ cop.op = "delete" =>
        /\ cop.error = "none"
        /\ Holders(layers, cop.key) = {}
    /\ (cop.op = "contains" /\ cop.prev.op = "delete" /\ cop.prev.key = cop.key) =>
        cop.answer = FALSE

\* k removed a second time, the first removal having found it in only one
\* of two layers
C12_Witness ==
    /\ cop.op = "delete"
    /\ cop.holders = {}
    /\ cop.prev.op = "delete"
    /\ cop.prev.key = cop.key
    /\ cop.prev.holders = {2}

\* k removed from every layer of two
C12_WitnessAll == cop.op = "delete" /\ cop.holders = {1, 2}

\* contains asked right after the removal
C12_WitnessContains ==
    /\ cop.op = "contains"
    /\ cop.prev.op = "delete"
    /\ cop.prev.key = cop.key
    /\ cop.prev.holders # {}
\* C13: is_optimally_cached(k) answers true exactly when the first layer
\* contains k: true right after a put(k, .) whose write to the first layer
\* succeeded, false when only lower-priority layers hold k.
C13_OptimallyCachedIffFirstLayer ==
    cop.op = "is_optimally_cached" =>
        /\ cop.answer <=> (1 \in cop.holders)
        /\ (cop.prev.op = "put" /\ cop.prev.key = cop.key
                /\ Len(layers) > 0 /\ 1 \notin cop.prev.failing) => cop.answer
        /\ (cop.holders # {} /\ 1 \notin cop.holders) => ~cop.answer

\* asked right after a put that wrote the first layer and failed on the second
C13_Witness ==
    /\ cop.op = "is_optimally_cached"
    /\ cop.prev.op = "put"
    /\ cop.prev.key = cop.key
    /\ cop.prev.failing = {2}
    /\ cop.answer

\* asked while only the second layer holds k
C13_WitnessLower ==
    /\ cop.op = "is_optimally_cached"
    /\ cop.holders = {2}
    /\ ~cop.answer
\* the step applies get to the cache
GetStep == cop' # cop /\ cop'.op = "get"

\* the step applies put to the cache
PutStep == cop' # cop /\ cop'.op = "put"

\* the layer of highest priority that holds the key before the step
FirstHolder(key) ==
    CHOOSE i \in Holders(layers, key) : \A j \in Holders(layers, key) : i <= j

\* the get of the step returns the bytes of the first layer that held the
\* key, and fails with ResourceNotFound exactly when none did
ReturnsFirstHit ==
    IF Holders(layers, cop'.key) = {}
    THEN cop'.error = "ResourceNotFound" /\ layers' = layers
    ELSE /\ cop'.error = "none"
         /\ cop'.value = layers[FirstHolder(cop'.key)][cop'.key]

\* after the step the layers in `promoted` hold the returned bytes
Backfilled(promoted) ==
    \A i \in promoted : layers'[i][cop'.key] = cop'.value

\* the layers of higher priority than the first hit
Missed(key) ==
    IF Holders(layers, key) = {} THEN {} ELSE 1 .. (FirstHolder(key) - 1)

\* C14 as stated: get(k) returns the bytes of the first layer that contains
\* k, afterwards every higher-priority layer that missed contains k with
\* those bytes, and it fails with ResourceNotFound only if no layer has k.
C14_GetBackfillsEveryMiss ==
    [][GetStep => (ReturnsFirstHit /\ Backfilled(Missed(cop'.key)))]_vars

\* C14 amended: the same, where the layers that contain k afterwards are
\* the higher-priority layers that missed and whose backfill write did not
\* fail.
C14_GetBackfillsWhereWritable ==
    [][GetStep =>
        (ReturnsFirstHit /\ Backfilled(Missed(cop'.key) \ cop'.failing))]_vars

\* a get found k in the second layer only and promoted it to the first
C14_Witness ==
    /\ cop.op = "get"
    /\ cop.holders = {2}
    /\ cop.failing = {}
    /\ cop.error = "none"
    /\ Holders(layers, cop.key) = {1, 2}
    /\ layers[1][cop.key] = cop.value

\* a get found k in no layer of two
C14_WitnessNotFound ==
    /\ cop.op = "get"
    /\ Len(layers) = MaxLayers
    /\ cop.error = "ResourceNotFound"

\* C15: when the backfill write of a higher-priority layer fails, get still
\* returns the bytes found in the lower layer, raises nothing, and the
\* failing layer is left without the key.
C15_BackfillFailureContained ==
    [][(GetStep /\ Missed(cop'.key) \cap cop'.failing # {}) =>
        /\ cop'.error = "none"
        /\ cop'.value = layers[FirstHolder(cop'.key)][cop'.key]
        /\ \A i \in Missed(cop'.key) \cap cop'.failing :
                ~LayerContains(layers'[i], cop'.key)]_vars

\* a get returned the bytes of the second layer although the backfill of
\* the first failed
C15_Witness ==
    /\ cop.op = "get"
    /\ cop.holders = {2}
    /\ 1 \in cop.failing
    /\ cop.error = "none"
    /\ cop.value \in CacheBytes
    /\ Holders(layers, cop.key) = {2}

\* C16: put fails with CacheWriteFailed only when the write failed on every
\* layer; after a put that did not fail every layer whose write succeeded
\* contains k with b, a failure on one layer not preventing the writes to
\* the others.
C16_PutWritesEveryLayer ==
    [][PutStep =>
        /\ cop'.error \in {"none", "CacheWriteFailed"}
        /\ cop'.error = "CacheWriteFailed" => (1 .. Len(layers)) \subseteq cop'.failing
        /\ cop'.error = "none" =>
                \A i \in (1 .. Len(layers)) \ cop'.failing :
                    layers'[i][cop'.key] = cop'.arg]_vars

\* a put failed on the first layer, returned, and the second layer holds b
C16_Witness ==
    /\ cop.op = "put"
    /\ cop.failing = {1}
    /\ cop.error = "none"
    /\ Len(layers) = MaxLayers
    /\ layers[2][cop.key] = cop.arg
    /\ layers[1][cop.key] # cop.arg

\* a put failed on both layers and raised
C16_WitnessFailed ==
    /\ cop.op = "put"
    /\ cop.failing = {1, 2}
    /\ cop.error = "CacheWriteFailed"
(***************************************************************************)
(* C17: a Datastore without cache layers                                   *)
(***************************************************************************)
\* a get_resources call with the default flags that ran to its end
DefaultCallExhausted(p) ==
    /\ Exhausted(p)
    /\ call[p].op = "get_resources"
    /\ ~call[p].cached_only
    /\ ~call[p].skip_optimally_cached

\* every pair yielded came from the remote with the published bytes
AllFromRemote(p) ==
    \A i \in 1 .. Len(out[p]) :
        /\ out[p][i].src = "remote"
        /\ out[p][i].content = PublishedPayload[out[p][i].name]

\* C17: with no cache layer configured, contains and is_optimally_cached
\* answer false for every key, no cache operation raises, and a
\* get_resources call with default flags that runs to its end has yielded
\* every matching resource, each read from the remote.
C17_NoLayerDegradesToAbsent ==
    Len(layers) = 0 =>
        /\ \A k \in Keys : ~LCContains(layers, k) /\ ~LCIsOptimallyCached(layers, k)
        /\ \A p \in Procs :
            /\ err[p] \notin {"CacheWriteFailed", "ResourceNotFound"}
            /\ DefaultCallExhausted(p) =>
                    OutNames(p) = Matching(p) /\ AllFromRemote(p)

\* without a layer, a default call yielded the three resources of the dataset
C17_Witness ==
    \E p \in Procs :
        /\ Len(layers) = 0
        /\ DefaultCallExhausted(p)
        /\ Len(out[p]) = 3
(***************************************************************************)
(* C18: validate_cache                                                     *)
(***************************************************************************)
\* the bytes of k in the cache the scan found are those published for k
ValidBefore(k) ==
    ChecksumOk(datapackage_json(k.dataset), k.name, Held(scan.before, k))

\* the keys of a dataset that the partition filters select
Selected(p, ds) ==
    LET names == desc_get_resources(datapackage_json(ds), "", call[p].filters)
    IN  {Key(ds, names[i]) : i \in 1 .. Len(names)}

\* the scan went through all its datasets
Scanned(p) ==
    /\ call[p].op = "validate_cache"
    /\ pc[p] = "done"
    /\ err[p] = "none"

\* C18: validate_cache never ends with ChecksumMismatch; every key it has
\* checked whose cached bytes fail the checksum is counted as invalid and
\* is in no layer afterwards, every key it has checked whose bytes are
\* valid is still cached with those bytes; when the scan is over it has
\* checked every cached resource of every dataset that the partition
\* filters select, and logged for each dataset the numbers checked and
\* removed.
C18_ValidateCacheRemovesInvalid ==
    \A p \in Procs :
        call[p].op = "validate_cache" =>
            /\ err[p] # "ChecksumMismatch"
            /\ \A k \in scan.checked :
                IF ValidBefore(k)
                THEN k \notin scan.removed /\ Held(layers, k) = Held(scan.before, k)
                ELSE k \in scan.removed /\ ~LCContains(layers, k)
            /\ Scanned(p) =>
                /\ Len(scan.log) = Len(ValidateDatasets)
                /\ \A i \in 1 .. Len(ValidateDatasets) :
                    LET ds == ValidateDatasets[i]
                        cached == {k \in Selected(p, ds) : LCContains(scan.before, k)}
                    IN  /\ cached \subseteq scan.checked
                        /\ scan.log[i].dataset = ds
                        /\ scan.log[i].num_total = Cardinality(cached)
                        /\ scan.log[i].num_invalid =
                                Cardinality({k \in cached : ~ValidBefore(k)})

\* a scan that removed a damaged file of each dataset and kept a valid one
C18_Witness ==
    \E p \in Procs :
        /\ Scanned(p)
        /\ Key("eia860", "d") \in scan.removed
        /\ Key("eia861", "a") \in scan.removed
        /\ Key("eia861", "b") \in scan.checked \ scan.removed
        /\ LCContains(layers, Key("eia861", "b"))
(***************************************************************************)
(* C19: a put is atomic for concurrent readers                             *)
(***************************************************************************)
\* C19: whatever a reader's get(k) returns is absent or a complete value,
\* and while a put(k, b) is under way get returns either what the layer
\* held before the put or the complete b, and contains answers as one of
\* these two states does; never a partially written value.
C19_PutAtomicForReaders ==
    LET r == lstore.seen
    IN  /\ r.op = "get" => r.value \in Contents \cup {NoFile}
        /\ (r.op = "get" /\ r.pending # NoFile) => r.value \in {r.old, r.pending}
        /\ (r.op = "contains" /\ r.pending # NoFile /\ r.old = NoFile) => ~r.answer
        /\ (r.op = "contains" /\ r.old # NoFile) => r.answer

\* a get in the middle of a put that replaces other bytes returned the
\* complete old value
C19_Witness ==
    LET r == lstore.seen
    IN  /\ r.op = "get"
        /\ r.pending \in Contents
        /\ Len(r.partial) = 1
        /\ r.old \in Contents \ {r.pending}
        /\ r.value = r.old
(***************************************************************************)
(* C20: concurrent queries for the same resource                           *)
(***************************************************************************)
\* both callers missed, fetched and put the key of resource `name`, and
\* both calls ran to their end
BothFetched(name) ==
    \A p \in Procs :
        /\ Exhausted(p)
        /\ \E i \in 1 .. Len(out[p]) : out[p][i].name = name /\ out[p][i].src = "remote"

\* any two pairs the callers have yielded for one resource carry the same
\* bytes, and these pass the checksum
SameValidBytes ==
    \A p, q \in Procs :
        \A i \in 1 .. Len(out[p]), j \in 1 .. Len(out[q]) :
            out[p][i].name = out[q][j].name =>
                /\ out[p][i].content = out[q][j].content
                /\ ChecksumOk(Descriptor(p), out[p][i].name, out[p][i].content)

\* the cache holds the bytes the callers yielded for resource `name`
CacheHoldsYielded(name) ==
    \A p \in Procs : \A i \in 1 .. Len(out[p]) :
        out[p][i].name = name =>
            Held(layers, Key(call[p].dataset, name)) = out[p][i].content

\* C20 as stated: under every interleaving of two get_resources calls that
\* both miss, fetch and put the same key, both yield the same
\* checksum-valid bytes and the cache finally holds exactly those bytes.
C20_RaceIsSafe ==
    /\ SameValidBytes
    /\ \A name \in ResourceNames : BothFetched(name) => CacheHoldsYielded(name)

\* C20 amended: the same, the cache finally holding those bytes when the
\* Datastore has at least one cache layer.
C20_RaceIsSafeWithLayers ==
    /\ SameValidBytes
    /\ \A name \in ResourceNames :
        (BothFetched(name) /\ Len(layers) > 0) => CacheHoldsYielded(name)

\* both callers fetched and put resource a, and the cache of two layers holds
\* the bytes they yielded
C20_Witness ==
    /\ BothFetched("a")
    /\ Len(layers) = MaxLayers
    /\ CacheHoldsYielded("a")
\* the keys of the matching resources the running call has not reached yet
Pending(p) == {Key(call[p].dataset, todo[p][i]) : i \in 1 .. Len(todo[p])}

\* the resource keys, as opposed to the metadata document
PayloadKeys == {k \in Keys : k.name # DatapackageName}

\* the consumer stopped iterating while matching resources were left
Cancelled(p) ==
    /\ pc[p] = "done"
    /\ err[p] = "none"
    /\ call[p].op = "get_resources"
    /\ todo[p] # <<>>

\* the download of cur[p] is under way, or it ended the call with an error
FetchIncomplete(p) ==
    /\ cur[p] # ""
    /\ \/ pc[p] \in {"get_descriptor", "http", "validate"}
       \/ /\ pc[p] = "done"
          /\ err[p] \in {"RemoteFetchFailed", "ChecksumMismatch", "CacheWriteFailed"}

\* C21: get_resources is lazy and cancellable between yielded pairs: a matching
\* resource the call has not reached yet (in particular every one left when
\* the consumer stops) was not requested by this call and is in the cache only
\* if an earlier call put it there; every resource key a layer holds carries
\* the complete published bytes of a resource whose processing finished; and
\* a download that is under way or that failed has written nothing.
C21_LazyAndCancellable ==
    \A p \in Procs :
        /\ \A k \in Pending(p) :
              /\ ResourceUrl(k) \notin netlog[p]
              /\ LCContains(layers, k) => k \in prior[p]
        /\ \A i \in 1 .. Len(layers) : \A k \in PayloadKeys :
              LayerContains(layers[i], k) =>
                 /\ layers[i][k] = PublishedPayload[k.name]
                 /\ k \in fetched
        /\ FetchIncomplete(p) => ~LCContains(layers, CurKey(p))

\* the consumer stopped after the first fetched pair of three matching
\* resources: the pair is cached, the two resources left were neither
\* requested nor cached
C21_Witness ==
    \E p \in Procs :
        /\ Cancelled(p)
        /\ Len(out[p]) = 1
        /\ out[p][1].src = "remote"
        /\ LCContains(layers, CurKey(p))
        /\ Len(todo[p]) = 2
        /\ \A k \in Pending(p) :
              ResourceUrl(k) \notin netlog[p] /\ ~LCContains(layers, k)

\* a download ended with an error after an earlier pair had been saved
C21_WitnessFailed ==
    \E p \in Procs :
        /\ FetchIncomplete(p)
        /\ pc[p] = "done"
        /\ err[p] = "ChecksumMismatch"
        /\ Len(out[p]) = 1
        /\ ~LCContains(layers, CurKey(p))
\* the requests that fetch a version's metadata
MetadataPurposes == {"deposit", "datapackage"}

\* caller p sends a metadata request in this step
MetadataRequest(p) == Answered(p) /\ http[p].purpose \in MetadataPurposes

\* C22: ZenodoFetcher.get_descriptor sends a metadata request for a version
\* only while that version is not in its memoization map; a version enters
\* the map on a successful download and never leaves it; and a call that
\* finds the version in the map returns to its caller at once, having sent no
\* request and changed nothing.
C22_DescriptorMemoized ==
    [][/\ descriptor_cache \subseteq descriptor_cache'
       /\ (\A p \in Procs : ~MetadataRequest(p)) => descriptor_cache' = descriptor_cache
       /\ \A p \in Procs :
        /\ MetadataRequest(p) =>
              /\ DOI[call[p].dataset] \notin descriptor_cache
              /\ descriptor_cache' # descriptor_cache =>
                    /\ http[p].purpose = "datapackage"
                    /\ http'[p].status = StatusOk
                    /\ descriptor_cache' = descriptor_cache \cup {DOI[call[p].dataset]}
        /\ (pc[p] = "get_descriptor" /\ pc'[p] # "get_descriptor"
               /\ DOI[call[p].dataset] \in descriptor_cache) =>
              /\ netlog' = netlog
              /\ descriptor_cache' = descriptor_cache
              /\ layers' = layers
              /\ \/ pc'[p] = "http" /\ http'[p].purpose = "resource"
                 \/ pc'[p] = "descriptor_add"]_vars

\* a later call is about to download a resource: get_descriptor answered from
\* its map and the call has sent no request at all
C22_Witness ==
    \E p \in Procs :
        /\ pc[p] = "http"
        /\ http[p].purpose = "resource"
        /\ http[p].attempts = 0
        /\ DOI[call[p].dataset] \in descriptor_cache
        /\ netlog[p] = {}
\* a validate_cache run is under way or has ended
Validating(p) == call[p].op = "validate_cache"

\* C23: validate mode downloads nothing: while validate_cache runs, no request
\* at all has been sent to the remote, neither for resource bytes nor for
\* metadata.
C23_ValidateDownloadsNothing ==
    \A p \in Procs : Validating(p) => netlog[p] = {}

\* C23, the part that holds: validate_cache requests no resource bytes, and
\* requests metadata only for a dataset whose datapackage.json no layer held
\* when the run began.
C23_ValidateDownloadsNoResource ==
    \A p \in Procs : Validating(p) =>
        /\ netlog[p] \subseteq {Url(call[p].dataset, m) : m \in MetadataPurposes}
        /\ netlog[p] # {} => ~LCContains(scan.before, DescKey(p))

\* validate_cache has downloaded the metadata of a dataset and written it to
\* a cache that did not hold it
C23_Scenario ==
    \E p \in Procs :
        /\ Validating(p)
        /\ Url(call[p].dataset, "datapackage") \in netlog[p]
        /\ ~LCContains(scan.before, DescKey(p))
        /\ LCContains(layers, DescKey(p))
\* get_datapackage_descriptor takes one of its three branches in this step
DescriptorLookup(p) == pc[p] = "descriptor" /\ pc'[p] # "descriptor"

\* the else branch memoizes and calls cache.add in this step
DescriptorStored(p) == pc[p] = "descriptor_add" /\ pc'[p] # "descriptor_add"

MetadataUrls(ds) == {Url(ds, m) : m \in MetadataPurposes}

\* C24: get_datapackage_descriptor obtains a version's descriptor at most
\* once per Datastore. A call that finds the version in memory returns it and
\* touches neither cache nor remote. Otherwise, if the cache contains
\* datapackage.json the call takes the cached copy, sends no request and
\* memoizes; if not, it fetches the metadata from the remote, memoizes, and
\* puts the serialized JSON under that key: every layer that took the write
\* holds it, and the call fails only when every layer refused. The map never
\* loses a version and gains one only in these two ways.
C24_DescriptorObtainedOnce ==
    [][/\ datapackage_descriptors \subseteq datapackage_descriptors'
       /\ (\A p \in Procs : ~DescriptorLookup(p) /\ ~DescriptorStored(p))
             => datapackage_descriptors' = datapackage_descriptors
       /\ \A p \in Procs :
            LET doi == DOI[call[p].dataset]
                key == DescKey(p)
                json == DescriptorBytes(call[p].dataset)
            IN  /\ DescriptorLookup(p) =>
                      /\ netlog' = netlog
                      /\ IF doi \in datapackage_descriptors
                         THEN /\ pc'[p] = "iterate"
                              /\ layers' = layers
                              /\ datapackage_descriptors' = datapackage_descriptors
                         ELSE IF LCContains(layers, key)
                         THEN /\ pc'[p] = "iterate"
                              /\ Held(layers', key) = Held(layers, key)
                              /\ datapackage_descriptors' =
                                    datapackage_descriptors \cup {doi}
                         ELSE /\ pc'[p] = "get_descriptor"
                              /\ layers' = layers
                              /\ datapackage_descriptors' = datapackage_descriptors
                /\ DescriptorStored(p) =>
                      /\ MetadataUrls(call[p].dataset) \subseteq netlog[p]
                      /\ doi \notin datapackage_descriptors
                      /\ datapackage_descriptors' = datapackage_descriptors \cup {doi}
                      /\ \/ /\ err'[p] = "CacheWriteFailed"
                            /\ layers' = layers
                            /\ Len(layers) >= 1
                         \/ /\ err'[p] = "none"
                            /\ pc'[p] = "iterate"
                            /\ \A i \in 1 .. Len(layers) :
                                  layers'[i][key] \in {json, Absent}
                            /\ Len(layers) >= 1 => Held(layers', key) = json]_vars

\* a later call returned the descriptor from memory: it sent no request, and
\* the cache, which took no write, does not hold datapackage.json
C24_Witness ==
    \E p \in Procs :
        /\ pc[p] = "done"
        /\ call[p].op = "get_datapackage_descriptor"
        /\ err[p] = "none"
        /\ netlog[p] = {}
        /\ DOI[call[p].dataset] \in datapackage_descriptors
        /\ ~LCContains(layers, DescKey(p))

\* a first call took the copy cached in the second layer and sent no request
C24_WitnessCached ==
    \E p \in Procs :
        /\ pc[p] = "done"
        /\ call[p].op = "get_datapackage_descriptor"
        /\ netlog[p] = {}
        /\ datapackage_descriptors = {DOI[call[p].dataset]}
        /\ descriptor_cache = {}
        /\ Len(layers) = 2
        /\ LayerContains(layers[2], DescKey(p))
\* a get_resources call as fetch_resources makes it
FetchCall(p) ==
    /\ call[p].op = "get_resources"
    /\ call[p].skip_optimally_cached
    /\ ~call[p].cached_only

MatchingKeys(p) ==
    {Key(call[p].dataset, Matching(p)[i]) : i \in 1 .. Len(Matching(p))}

\* C25 as claimed: once a get_resources call with skip_optimally_cached (and
\* cached_only false) has been consumed to its end without error, every
\* matching resource is optimally cached: it is in the first layer.
C25_AllOptimallyCached ==
    \A p \in Procs :
        (FetchCall(p) /\ Exhausted(p)) =>
            \A k \in MatchingKeys(p) : LCIsOptimallyCached(layers, k)

\* C25 amended: such a call passes over a matching resource only when the
\* first layer holds it; every other matching resource is read or fetched,
\* which leaves it optimally cached unless the Datastore has no layer or the
\* first layer took no write in that step; and when the sequence ends without
\* error on a Datastore with at least one layer, the cache contains every
\* matching resource.
C25_AttemptsOptimalCaching ==
    [][\A p \in Procs : FetchCall(p) =>
        /\ (Examines(p) /\ pc'[p] = "iterate") =>
              LCIsOptimallyCached(layers, Key(call[p].dataset, Head(todo[p])))
        /\ (pc[p] \in {"hit", "add"} /\ pc'[p] = "yielded") =>
              \/ LCIsOptimallyCached(layers', CurKey(p))
              \/ Len(layers) = 0
              \/ layers'[1] = layers[1]
        /\ (pc[p] = "iterate" /\ pc'[p] = "done" /\ err'[p] = "none"
                /\ Len(layers) >= 1) =>
              \A k \in MatchingKeys(p) : LCContains(layers', k)]_vars

\* a call with skip_optimally_cached ran to its end: a resource that only the
\* second layer held was read from the cache, not skipped, and is now in the
\* first layer
C25_Witness ==
    \E p \in Procs :
        /\ FetchCall(p)
        /\ Exhausted(p)
        /\ Len(layers) = 2
        /\ \E i \in 1 .. Len(out[p]) :
              /\ out[p][i].src = "cache"
              /\ LCIsOptimallyCached(layers, Key(call[p].dataset, out[p][i].name))
        /\ \A k \in MatchingKeys(p) : LCIsOptimallyCached(layers, k)

\* the same call ended without error while a matching resource is in the
\* second layer only
C25_WitnessLower ==
    \E p \in Procs :
        /\ FetchCall(p)
        /\ Exhausted(p)
        /\ Len(layers) = 2
        /\ \E k \in MatchingKeys(p) :
              LCContains(layers, k) /\ ~LCIsOptimallyCached(layers, k)
\* the bytes hash to the checksum the descriptor lists for the key
HashesToChecksum(k, content) ==
    ChecksumOk(datapackage_json(k.dataset), k.name, content)

\* C26: cache integrity: across any sequence of get_resources,
\* get_unique_resource and remove_from_cache, every resource payload that
\* any cache layer holds (every key but datapackage.json) hashes to the
\* checksum the descriptor lists for its key.
C26_CacheIntegrity ==
    \A i \in 1 .. Len(layers) : \A k \in PayloadKeys :
        LayerContains(layers[i], k) => HashesToChecksum(k, layers[i][k])

\* a pair was just yielded from the cache, its key held by both layers, while
\* another resource is in the second layer only: puts that failed on the first
\* layer and a read with backfill have happened
C26_Witness ==
    \E p \in Procs :
        /\ pc[p] = "yielded"
        /\ Last(out[p]).src = "cache"
        /\ Len(layers) = 2
        /\ LayerContains(layers[1], CurKey(p))
        /\ layers[2][CurKey(p)] = layers[1][CurKey(p)]
        /\ \E k \in PayloadKeys :
              LayerContains(layers[2], k) /\ ~LayerContains(layers[1], k)
\* the datasets whose scan is complete
ScannedDatasets == {scan.log[i].dataset : i \in 1 .. Len(scan.log)}

\* some layer holds bytes for k that fail k's checksum
HoldsInvalid(ls, k) ==
    \E i \in 1 .. Len(ls) :
        LayerContains(ls[i], k) /\ ~HashesToChecksum(k, ls[i][k])

\* C27: after validate_cache has completed a dataset, no cache layer holds
\* bytes that fail the checksum for a resource of that dataset that the
\* partition filters select, also when the layers hold different bytes for
\* the key.
C27_NoInvalidBytesAfterValidate ==
    \A p \in Procs :
        Validating(p) =>
            \A ds \in ScannedDatasets : \A k \in Selected(p, ds) :
                ~HoldsInvalid(layers, k)

\* C27, the part that holds: after the scan of a dataset no selected key is
\* served with invalid bytes: the layered get returns valid bytes for every
\* key the cache still contains, and a key that was served invalid bytes is
\* in no layer.
C27_NoInvalidBytesServed ==
    \A p \in Procs :
        Validating(p) =>
            \A ds \in ScannedDatasets : \A k \in Selected(p, ds) :
                /\ LCContains(layers, k) => HashesToChecksum(k, Held(layers, k))
                /\ k \in scan.removed => ~LCContains(layers, k)

\* the scan is over and counted no invalid file for eia861, yet the second
\* layer still holds damaged bytes for resource a behind the valid copy of
\* the first layer
C27_Scenario ==
    \E p \in Procs :
        /\ Scanned(p)
        /\ Key("eia861", "a") \in scan.checked \ scan.removed
        /\ HoldsInvalid(layers, Key("eia861", "a"))
        /\ HashesToChecksum(Key("eia861", "a"), layers[1][Key("eia861", "a")])
\* the call ended with the ambiguity error of get_unique_resource
Ambiguous(p) ==
    /\ call[p].op = "get_unique_resource"
    /\ pc[p] = "done"
    /\ err[p] = "Multiple resources found"

\* the pair was retrieved: read from the cache, or requested from the remote,
\* checksum-valid and, where there is a layer, in the cache
Retrieved(p, y) ==
    \/ y.src = "cache"
    \/ /\ y.src = "remote"
       /\ FetchedPairRequestedAndValid(p, y)
       /\ Len(layers) >= 1 => FetchedPairCached(p, y)

\* C28: get_unique_resource queries with default flags and pulls at most two
\* pairs. When it fails with 'Multiple resources found' the first two matching
\* resources, and only those, have been retrieved: each was read from the
\* cache or downloaded, validated and written to it, while no third or later
\* match was requested or written by this call.
C28_UniquePullsAtMostTwo ==
    \A p \in Procs :
        call[p].op = "get_unique_resource" =>
            /\ ~call[p].cached_only /\ ~call[p].skip_optimally_cached
            /\ Len(out[p]) <= 2
            /\ Ambiguous(p) =>
                  /\ Len(Matching(p)) >= 2
                  /\ OutNames(p) = SubSeq(Matching(p), 1, 2)
                  /\ todo[p] = SubSeq(Matching(p), 3, Len(Matching(p)))
                  /\ \A i \in 1 .. 2 : Retrieved(p, out[p][i])
                  /\ \A k \in Pending(p) :
                        /\ ResourceUrl(k) \notin netlog[p]
                        /\ LCContains(layers, k) => k \in prior[p]

\* a call on three matching resources failed as ambiguous and changed the
\* cache: the second match, which no earlier call had fetched, was downloaded
\* and is now cached; the third was not retrieved
C28_Witness ==
    \E p \in Procs :
        /\ Ambiguous(p)
        /\ Len(Matching(p)) = 3
        /\ out[p][2].src = "remote"
        /\ Key(call[p].dataset, out[p][2].name) \notin prior[p]
        /\ LCContains(layers, Key(call[p].dataset, out[p][2].name))
        /\ ~LCContains(layers, Key(call[p].dataset, Matching(p)[3]))
\* C29: a query with cached_only false never fails with ResourceNotFound for
\* a key the descriptor lists, also when another caller removes the key from
\* the cache between the query's contains check and its get.
C29_NeverResourceNotFound ==
    \A p \in Procs :
        (pc[p] # "idle" /\ ~call[p].cached_only) => err[p] # "ResourceNotFound"

\* C29, the part that holds: a query fails with ResourceNotFound only in the
\* step that reads a key its contains check had found and that no layer
\* holds any more; a key examined after the removal is fetched from the
\* remote.
C29_NotFoundOnlyAfterRemoval ==
    [][\A p \in Procs :
        /\ (err[p] # "ResourceNotFound" /\ err'[p] = "ResourceNotFound") =>
              /\ pc[p] = "hit"
              /\ ~LCContains(layers, CurKey(p))
              /\ ResourceUrl(CurKey(p)) \notin netlog[p]
        /\ (Examines(p) /\ ~LCContains(layers, Key(call[p].dataset, Head(todo[p])))) =>
              pc'[p] = "get_descriptor"]_vars

\* a query found the key cached, another caller removed it, and the query
\* ended with ResourceNotFound although the descriptor lists the key
C29_Scenario ==
    \E p \in Procs :
        /\ pc[p] = "done"
        /\ err[p] = "ResourceNotFound"
        /\ ~call[p].cached_only
        /\ InSeq(cur[p], Matching(p))
        /\ out[p] = <<>>
        /\ netlog[p] = {}
\* the resource of the descriptor that a yielded key names
YieldedResource(i) == get_resource_metadata(match.resources, match.keys[i].name)

\* C30: a resource whose parts mapping lacks a filtered partition key (or
\* that has no parts mapping at all) is never yielded by
\* DatapackageDescriptor.get_resources, whatever value the filter gives for
\* that key.
C30_MissingPartMatchesNoFilter ==
    match.applied =>
        \A i \in 1 .. Len(match.keys) :
            DOMAIN match.filters \subseteq DOMAIN YieldedResource(i).parts

\* C30, the part that holds: such a resource is yielded only for the filter
\* value None or a value whose string form is 'None'.
C30_MissingPartMatchesOnlyNone ==
    match.applied =>
        \A i \in 1 .. Len(match.keys) : \A k \in DOMAIN match.filters :
            k \notin DOMAIN YieldedResource(i).parts => str(match.filters[k]) = "None"

\* a resource without parts was yielded for the filter year='None'
C30_Scenario ==
    /\ match.applied
    /\ match.filters = [year |-> StrV("None")]
    /\ \E i \in 1 .. Len(match.keys) : YieldedResource(i).parts = EmptyDict
====
